---------------------------- MODULE Spec2Model ----------------------------
(***************************************************************************)
(* A model of the Thunderbird MCP server extension                         *)
(* (extension/mcp_server/api.js).  The extension registers one HTTP path   *)
(* handler that speaks JSON-RPC (tools/list, tools/call) and dispatches    *)
(* to tool handlers calling into the host mail client.                     *)
(*                                                                         *)
(* The module holds four state machines over one set of variables:         *)
(*   SpecStart  - mcpServer.start() and its globalThis start guard         *)
(*   SpecHttp   - the HTTP path handler, callTool and the compose/read     *)
(*                tools with their host callbacks                          *)
(*   SpecMail   - deleteMessages on the host's folders                     *)
(*   SpecFilter - the filter tools, the compose tool and the host's        *)
(*                filter execution                                         *)
(* Each leaves the variables of the others unchanged.                      *)
(***************************************************************************)
EXTENDS Integers, Sequences, FiniteSets, TLC

VARIABLES
    \* ---- mcpServer.start ----
    startPromise,   \* globalThis.__tbMcpStartPromise: "null" or the value the cached promise resolves to
    startAttempts,  \* how many times server.start(MCP_PORT) was executed
    portFree,       \* whether port MCP_PORT can still be bound
    calls,          \* each start() call: where it is and what it returns
    firstOutcome,   \* outcome of the first start sequence that ran
    loads,          \* how many times the extension was (re)loaded, getAPI called
    \* ---- HTTP handler ----
    req,            \* per connection: the request received
    pc,             \* per connection: position of the handler
    resp,           \* per connection: what was written to res
    nFinish,        \* per connection: number of res.finish() calls
    tool,           \* per connection: state of the tool handler promise
    mime,           \* per connection: MsgHdrToMimeMessage callback outstanding
    att,            \* per connection: stage of every attachment save
    opened,         \* per connection: compose windows this request opened
    \* ---- host mail store ----
    folderMsgs,     \* messages held by each folder
    hasTrash,       \* whether the account's folder tree holds a Trash-flagged folder
    hardDeleted,    \* messages handed to folder.deleteMessages
    mailOp,         \* the last mail tool call: arguments and result
    \* ---- filters and compose ----
    filters,        \* the account's in-memory filter list
    saved,          \* the filter list as last written by saveToDefaultFile
    windows,        \* compose windows open, waiting for the user
    sentByUser,     \* messages the user sent from a compose window
    sentByHost,     \* messages the host sent with no compose window
    applying,       \* a filter run handed to the host and not yet carried out
    filterOp,       \* the last filter or compose tool call: name and result
    original,       \* the message a reply or forward is about: its attachments
    compose,        \* the last compose tool call: its window and its result
    store,          \* which mail store the search tools read
    fault,          \* the item of the store whose access throws, if any
    search,         \* the last searchMessages or getRecentMessages call
    msgState,       \* read state, flagged state and folder of message m1
    updateOp,       \* the last updateMessage call
    eventOp,        \* the last createEvent call and the dialog it opened
    filterCall      \* a filter tool call as seen by its caller: arguments, list before

startVars  == <<startPromise, startAttempts, portFree, calls, firstOutcome, loads>>
httpVars   == <<req, pc, resp, nFinish, tool, mime, att, opened>>
mailVars   == <<folderMsgs, hasTrash, hardDeleted, mailOp>>
filterVars == <<filters, saved, windows, sentByUser, sentByHost, applying, filterOp>>
attachVars == <<original, compose>>
searchVars == <<store, fault, search>>
updateVars == <<msgState, updateOp>>
eventVars == <<eventOp>>
listVars == <<filterCall>>
toolVars == <<attachVars, searchVars, updateVars, eventVars, listVars>>
vars       == <<startVars, httpVars, mailVars, filterVars, toolVars>>

\* What an action of one of the tool machines leaves alone.
exceptAttach == <<startVars, httpVars, mailVars, filterVars, searchVars, updateVars, eventVars, listVars>>
exceptSearch == <<startVars, httpVars, mailVars, filterVars, attachVars, updateVars, eventVars, listVars>>
exceptUpdate == <<startVars, httpVars, mailVars, filterVars, attachVars, searchVars, eventVars, listVars>>
exceptEvent == <<startVars, httpVars, mailVars, filterVars, attachVars, searchVars, updateVars, listVars>>

(***************************************************************************)
(* Bounds of the model.                                                    *)
(***************************************************************************)
MaxCalls   == 3     \* start() calls
MaxLoads   == 2     \* extension loads in one process
MaxAtt     == 2     \* attachments of the largest message
MaxWindows == 2     \* compose windows opened
MaxFilters == 2     \* filters in an account's list
MaxSent    == 1     \* messages sent
MaxPaths   == 2     \* file paths in one attachments argument
BigCount   == 201   \* messages in the large folder of the large store
MaxOrder   == 3     \* filters in the list of the account whose calls are followed
MaxDay     == 1     \* days the dates of a createEvent call are drawn from (0..MaxDay)

(***************************************************************************)
(* Program constants.                                                      *)
(***************************************************************************)
MCP_PORT == 8765
DEFAULT_MAX_RESULTS == 50
MAX_SEARCH_RESULTS_CAP == 200
SEARCH_COLLECTION_CAP == 1000
ErrorCode == 0 - 32000

Min(a, b) == IF a < b THEN a ELSE b

(***************************************************************************)
(* mcpServer.start (api.js 363-368, 2488-2500).                            *)
(* The start sequence is the body of an async arrow function that holds no *)
(* await: it runs to its return synchronously inside the call that found   *)
(* the guard empty, so one Start step covers lines 365-2498.               *)
(***************************************************************************)
CallIds == 1..MaxCalls

OkResult   == [success |-> TRUE, port |-> MCP_PORT]
FailResult == [success |-> FALSE, port |-> 0]

NullPromise == [set |-> FALSE, value |-> FailResult]
CachedPromise(r) == [set |-> TRUE, value |-> r]

\* C8 mutant: the guard never finds a cached promise.
GuardNever(p) == FALSE

\* if (globalThis.__tbMcpStartPromise)
GuardHit(p) == p.set

\* The try block: module imports and handler registration may throw before
\* server.start is reached; server.start throws when the port is taken.
StartSequence(importOk, free) ==
    IF ~importOk THEN [attempted |-> FALSE, result |-> FailResult]
    ELSE IF free THEN [attempted |-> TRUE,  result |-> OkResult]
    ELSE              [attempted |-> TRUE,  result |-> FailResult]

Start(c) ==
    /\ calls[c].pc = "idle"
    /\ IF GuardHit(startPromise)
       THEN /\ calls' = [calls EXCEPT ![c] = [pc |-> "awaiting", result |-> startPromise.value]]
            /\ UNCHANGED <<startPromise, startAttempts, portFree, firstOutcome>>
       ELSE \E importOk \in BOOLEAN :
            LET out == StartSequence(importOk, portFree)
                \* A failing sequence sets globalThis.__tbMcpStartPromise = null
                \* in its catch (line 2494) while the arrow function is still
                \* running; start() then assigns the promise (line 2498), so
                \* the promise is what the global holds after either outcome.
                assigned == CachedPromise(out.result)
            IN  /\ startAttempts' = startAttempts + (IF out.attempted THEN 1 ELSE 0)
                /\ portFree' = (portFree /\ ~out.result.success)
                /\ startPromise' = assigned
                /\ calls' = [calls EXCEPT ![c] = [pc |-> "awaiting", result |-> out.result]]
                /\ firstOutcome' = IF firstOutcome # "none" THEN firstOutcome
                                   ELSE IF out.result.success THEN "ok" ELSE "fail"
    /\ UNCHANGED <<loads, httpVars, mailVars, filterVars, toolVars>>

\* return await startPromise
StartReturn(c) ==
    /\ calls[c].pc = "awaiting"
    /\ calls' = [calls EXCEPT ![c].pc = "returned"]
    /\ UNCHANGED <<startPromise, startAttempts, portFree, firstOutcome, loads,
                   httpVars, mailVars, filterVars, toolVars>>

\* The extension is reloaded: onShutdown, then getAPI again in the same
\* process.  Neither touches globalThis.__tbMcpStartPromise nor the server.
Reload ==
    /\ loads < MaxLoads
    /\ loads' = loads + 1
    /\ UNCHANGED <<startPromise, startAttempts, portFree, calls, firstOutcome,
                   httpVars, mailVars, filterVars, toolVars>>

(***************************************************************************)
(* The HTTP endpoint: requests.                                            *)
(***************************************************************************)
Conns == {"c1", "c2"}

HttpMethods == {"POST", "GET"}

\* The Authorization header a client sends: none, a wrong token, or the
\* token the documentation says is generated at startup.
AuthHeaders == {"none", "wrong", "valid"}

\* JSON-RPC ids a body carries; "undefined" is a body with no id member.
Ids == {"undefined", "7"}

\* Message ids a client can name: "undefined" (argument omitted), a message
\* with no attachment, a message with MaxAtt attachments, an unknown id.
MsgIds == {"undefined", "m0", "mA", "mX"}

\* const tools = [...]: the names of the catalog, in its order.
tools ==
    {"listAccounts", "listFolders", "searchMessages", "getMessage", "sendMail",
     "listCalendars", "createEvent", "searchContacts", "replyToMessage",
     "forwardMessage", "getRecentMessages", "deleteMessages", "updateMessage",
     "createFolder", "listFilters", "createFilter", "updateFilter",
     "deleteFilter", "reorderFilters", "applyFilters"}

\* inputSchema.required of the tools whose handlers this machine runs.
Required(name) ==
    CASE name = "sendMail"       -> {"to", "subject", "body"}
      [] name = "getMessage"     -> {"messageId", "folderPath"}
      [] name = "replyToMessage" -> {"messageId", "folderPath", "body"}
      [] name = "forwardMessage" -> {"messageId", "folderPath", "to"}
      [] OTHER                   -> {}

\* params.arguments.  A client that omits messageId omits folderPath with
\* it; one that omits "to" to sendMail omits subject and body with it.
NoArgs == [to |-> "undefined", messageId |-> "undefined", saveAttachments |-> FALSE]

\* The argument names an arguments object carries.
Supplied(name, args) ==
    {k \in Required(name) :
        \/ k \in {"to", "subject", "body"} /\ args.to # "undefined"
        \/ k \in {"messageId", "folderPath"} /\ args.messageId # "undefined"}

NoParams == [kind |-> "absent", name |-> "", arguments |-> NoArgs]

Params ==
    {[kind |-> k, name |-> "", arguments |-> NoArgs] : k \in {"absent", "noname"}}
    \cup {[kind |-> "named", name |-> n, arguments |-> NoArgs] :
            n \in {"listAccounts", "noSuchTool"}}
    \cup {[kind |-> "named", name |-> "sendMail",
           arguments |-> [NoArgs EXCEPT !.to = t]] : t \in {"undefined", "a@b"}}
    \cup {[kind |-> "named", name |-> "getMessage",
           arguments |-> [NoArgs EXCEPT !.messageId = m, !.saveAttachments = sv]] :
            m \in MsgIds, sv \in BOOLEAN}
    \cup {[kind |-> "named", name |-> n,
           arguments |-> [NoArgs EXCEPT !.messageId = m, !.to = IF m = "undefined" THEN "undefined" ELSE "a@b"]] :
            n \in {"replyToMessage", "forwardMessage"}, m \in MsgIds}

\* A request body: text that is not JSON, the JSON value null, another JSON
\* value that is no object (a number, a string, an array), or an object.
Bodies ==
    {[kind |-> k, id |-> "undefined", method |-> "undefined", params |-> NoParams] :
        k \in {"invalid", "null", "scalar"}}
    \cup {[kind |-> "object", id |-> i, method |-> m, params |-> NoParams] :
            i \in Ids, m \in {"undefined", "tools/list", "resources/list"}}
    \cup {[kind |-> "object", id |-> i, method |-> "tools/call", params |-> p] :
            i \in Ids, p \in Params}

\* The requests a client sends: every body by POST, and by another method
\* a body of each kind.
Requests ==
    [method : {"POST"}, auth : AuthHeaders, body : Bodies]
    \cup [method : HttpMethods \ {"POST"}, auth : AuthHeaders,
          body : {b \in Bodies : b.id = "undefined" /\ b.params = NoParams}]

NoRequest == [method |-> "none", auth |-> "none",
              body |-> [kind |-> "invalid", id |-> "undefined", method |-> "undefined",
                        params |-> NoParams]]

\* The host's message store as the read tools see it.
MsgExists(m) == m \in {"m0", "mA"}
AttachmentCount(m) == IF m = "mA" THEN MaxAtt ELSE 0

(***************************************************************************)
(* The HTTP endpoint: responses (api.js 2425-2486).                        *)
(***************************************************************************)
NoResp == [status |-> 0, body |-> "none", id |-> "absent",
           hasResult |-> FALSE, hasError |-> FALSE, code |-> 0, payload |-> "none"]

\* res.setStatusLine(...); res.write("POST only" | "Invalid JSON" | "Unknown method: ...")
TextResponse(status) == [NoResp EXCEPT !.status = status, !.body = "text"]

\* JSON.stringify leaves out a member whose value is undefined.
StringifyId(id) == IF id = "undefined" THEN "absent" ELSE id

\* C3 mutant: the envelope also carries an error member.
ResultEnvelopeBoth(id, payload) ==
    [status |-> 200, body |-> "jsonrpc", id |-> StringifyId(id),
     hasResult |-> TRUE, hasError |-> TRUE, code |-> ErrorCode, payload |-> payload]

\* res.write(JSON.stringify({ jsonrpc: "2.0", id, result }))
ResultEnvelope(id, payload) ==
    [status |-> 200, body |-> "jsonrpc", id |-> StringifyId(id),
     hasResult |-> TRUE, hasError |-> FALSE, code |-> 0, payload |-> payload]

\* res.write(JSON.stringify({ jsonrpc: "2.0", id, error: { code: -32000, message } }))
ErrorEnvelope(id) ==
    [status |-> 200, body |-> "jsonrpc", id |-> StringifyId(id),
     hasResult |-> FALSE, hasError |-> TRUE, code |-> ErrorCode, payload |-> "none"]

\* The response of the async block once the tool promise has settled:
\* outcome "throw" (a handler threw) and "unknown" (callTool's default case
\* threw 'Unknown tool') are the catch branch, anything else the payload of
\* result.
Settled(id, outcome) ==
    IF outcome \in {"throw", "unknown"} THEN ErrorEnvelope(id)
    ELSE ResultEnvelope(id, outcome)

\* C13 mutant: the switch has lost the case of a listed tool.
CallToolCasesDrift == tools \ {"listAccounts"}

\* The names callTool's switch has a case for.
CallToolCases ==
    {"listAccounts", "listFolders", "searchMessages", "getMessage", "searchContacts",
     "listCalendars", "createEvent", "sendMail", "replyToMessage", "forwardMessage",
     "getRecentMessages", "deleteMessages", "updateMessage", "createFolder",
     "listFilters", "createFilter", "updateFilter", "deleteFilter", "reorderFilters",
     "applyFilters"}

\* The tools that wait for MsgHdrToMimeMessage.
MimeTools == {"getMessage", "replyToMessage", "forwardMessage"}

\* C6 mutant: an unknown tool name is reported inside result.
CallToolSyncSoft(name, args, hostOk) ==
    CASE name \notin CallToolCases -> [outcome |-> "error", opens |-> 0]
      [] name = "listAccounts" ->
            IF hostOk THEN [outcome |-> "ok", opens |-> 0]
                      ELSE [outcome |-> "throw", opens |-> 0]
      [] name = "sendMail" ->
            IF hostOk THEN [outcome |-> "ok", opens |-> 1]
                      ELSE [outcome |-> "error", opens |-> 0]
      [] name \in MimeTools ->
            IF MsgExists(args.messageId) /\ hostOk
                THEN [outcome |-> "pending", opens |-> 0]
                ELSE [outcome |-> "error", opens |-> 0]
      [] OTHER -> [outcome |-> "ok", opens |-> 0]

\* callTool up to the point where the handler returns or first waits for a
\* host callback.  hostOk is FALSE when a host call throws.
\*   default:          throw new Error("Unknown tool: ...")
\*   listAccounts:     no try/catch, a host exception propagates
\*   sendMail:         composeMail opens a compose window whatever is
\*                     undefined (to || "", subject || "", body || ""); a host
\*                     exception is caught and returned as { error }
\*   getMessage, replyToMessage, forwardMessage: findMessage's error or a
\*                     caught exception resolves { error }; otherwise
\*                     MsgHdrToMimeMessage is called and the promise pends
CallToolSync(name, args, hostOk) ==
    CASE name \notin CallToolCases -> [outcome |-> "unknown", opens |-> 0]
      [] name = "listAccounts" ->
            IF hostOk THEN [outcome |-> "ok", opens |-> 0]
                      ELSE [outcome |-> "throw", opens |-> 0]
      [] name = "sendMail" ->
            IF hostOk THEN [outcome |-> "ok", opens |-> 1]
                      ELSE [outcome |-> "error", opens |-> 0]
      [] name \in MimeTools ->
            IF MsgExists(args.messageId) /\ hostOk
                THEN [outcome |-> "pending", opens |-> 0]
                ELSE [outcome |-> "error", opens |-> 0]
      [] OTHER -> [outcome |-> "ok", opens |-> 0]

\* C5 mutant: getMessage resolves as soon as the MIME callback has the
\* headers, without waiting for the attachment saves.
EarlyResolveAlways(saveAttachments, nAtt) == TRUE

\* if (!saveAttachments || attachmentSources.length === 0) { resolve(baseResponse); return; }
EarlyResolve(saveAttachments, nAtt) == ~saveAttachments \/ nAtt = 0

NoAtt == [i \in 1..MaxAtt |-> "none"]
AllSaved(a) == \A i \in DOMAIN a : a[i] \in {"none", "done"}

(***************************************************************************)
(* The HTTP endpoint: the path handler and the callbacks it waits for.     *)
(* JavaScript runs each callback to completion, and the continuation of a  *)
(* settled promise runs before any other callback, so every action below   *)
(* runs from one host callback to the next point where the code waits.     *)
(***************************************************************************)

\* The async block writes `response` and calls res.finish().
Respond(c, response, toolState, opens) ==
    /\ pc' = [pc EXCEPT ![c] = "done"]
    /\ resp' = [resp EXCEPT ![c] = response]
    /\ nFinish' = [nFinish EXCEPT ![c] = @ + 1]
    /\ tool' = [tool EXCEPT ![c] = toolState]
    /\ opened' = [opened EXCEPT ![c] = @ + opens]

\* resolve(...) of a tool promise: the pending `await callTool(...)`
\* continues, the envelope is written and the response finished.  resolve
\* on a promise that is already settled does nothing.
Resolve(c, outcome, opens) ==
    IF tool[c] = "pending"
        THEN Respond(c, Settled(req[c].body.id, outcome), "resolved", opens)
        ELSE UNCHANGED <<pc, resp, nFinish, tool, opened>>

\* The host's HTTP server accepted a request on a free connection.
Receive(c) ==
    /\ pc[c] = "free"
    /\ \E r \in Requests : req' = [req EXCEPT ![c] = r]
    /\ pc' = [pc EXCEPT ![c] = "received"]
    /\ UNCHANGED <<resp, nFinish, tool, mime, att, opened, startVars, mailVars, filterVars, toolVars>>

\* server.registerPathHandler("/", (req, res) => { ... }) up to the first
\* point where it waits for a host callback.
Handle(c) ==
    /\ pc[c] = "received"
    /\ LET r == req[c]
           b == r.body
       IN  IF r.method # "POST"
               THEN /\ Respond(c, TextResponse(405), "notrun", 0)
                    /\ UNCHANGED mime
           ELSE IF b.kind = "invalid"
               THEN /\ Respond(c, TextResponse(400), "notrun", 0)
                    /\ UNCHANGED mime
           ELSE IF b.kind = "null"
               \* const { id, method, params } = message throws a TypeError
               \* outside every try: the handler writes nothing and does not
               \* call finish.  What the HTTP server library (httpd.sys.mjs)
               \* does with the exception is not in the handler's code: it
               \* either leaves the response unwritten or answers 500 itself.
               THEN /\ pc' = [pc EXCEPT ![c] = "thrown"]
                    /\ \E answered \in BOOLEAN :
                          resp' = [resp EXCEPT ![c] =
                                      IF answered THEN TextResponse(500) ELSE NoResp]
                    /\ UNCHANGED <<nFinish, tool, mime, opened>>
           ELSE IF b.method = "tools/list"
               THEN /\ Respond(c, ResultEnvelope(b.id, "tools"), "notrun", 0)
                    /\ UNCHANGED mime
           ELSE IF b.method = "tools/call"
               THEN IF b.params.kind # "named"
                       \* if (!params?.name) throw new Error("Missing tool name")
                       THEN /\ Respond(c, ErrorEnvelope(b.id), "notrun", 0)
                            /\ UNCHANGED mime
                       ELSE \E hostOk \in BOOLEAN :
                            LET o == CallToolSync(b.params.name, b.params.arguments, hostOk)
                            IN  IF o.outcome = "pending"
                                   THEN /\ pc' = [pc EXCEPT ![c] = "awaiting"]
                                        /\ tool' = [tool EXCEPT ![c] = "pending"]
                                        /\ mime' = [mime EXCEPT ![c] = TRUE]
                                        /\ UNCHANGED <<resp, nFinish, opened>>
                                   ELSE /\ Respond(c, Settled(b.id, o.outcome),
                                                   CASE o.outcome = "throw"   -> "threw"
                                                     [] o.outcome = "unknown" -> "unknown"
                                                     [] OTHER                 -> "resolved",
                                                   o.opens)
                                        /\ UNCHANGED mime
           ELSE /\ Respond(c, TextResponse(404), "notrun", 0)
                /\ UNCHANGED mime
    /\ UNCHANGED <<req, att, startVars, mailVars, filterVars, toolVars>>

\* The stages the attachment saves are in when saveOne has run for each of
\* the n attachments: done at once (no URL, too large, file not created, an
\* exception) or waiting for NetUtil.asyncFetch.
StartedSaves(n) ==
    {a \in [1..MaxAtt -> {"none", "done", "fetch"}] :
        \A i \in 1..MaxAtt : IF i <= n THEN a[i] # "none" ELSE a[i] = "none"}

\* The callback handed to MsgHdrToMimeMessage.
MimeCallback(c) ==
    /\ mime[c]
    /\ mime' = [mime EXCEPT ![c] = FALSE]
    /\ LET name == req[c].body.params.name
           args == req[c].body.params.arguments
           n    == AttachmentCount(args.messageId)
       IN  \E parsed \in BOOLEAN, hostOk \in BOOLEAN :
           IF name = "getMessage"
              THEN IF ~parsed
                      \* if (!aMimeMsg) resolve({ error: "Could not parse message" })
                      THEN /\ Resolve(c, "error", 0)
                           /\ UNCHANGED att
                   ELSE IF ~(args.saveAttachments /\ n > 0)
                      THEN /\ IF EarlyResolve(args.saveAttachments, n)
                                 THEN Resolve(c, "ok", 0)
                                 ELSE UNCHANGED <<pc, resp, nFinish, tool, opened>>
                           /\ UNCHANGED att
                   ELSE IF ~hostOk
                      \* ensureAttachmentDir threw: every info gets an error
                      THEN /\ Resolve(c, "ok", 0)
                           /\ UNCHANGED att
                   ELSE \E a \in StartedSaves(n) :
                           /\ att' = [att EXCEPT ![c] = a]
                           /\ IF EarlyResolve(args.saveAttachments, n) \/ AllSaved(a)
                                 THEN Resolve(c, "ok", 0)
                                 ELSE UNCHANGED <<pc, resp, nFinish, tool, opened>>
              \* replyToMessage, forwardMessage: open the compose window, or
              \* resolve { error } when a host call throws
              ELSE /\ IF hostOk THEN Resolve(c, "ok", 1) ELSE Resolve(c, "error", 0)
                   /\ UNCHANGED att
    /\ UNCHANGED <<req, startVars, mailVars, filterVars, toolVars>>

\* The callback handed to NetUtil.asyncFetch for attachment i: the save ends
\* (fetch failed, no data, too large, an exception) or NetUtil.asyncCopy starts.
FetchCallback(c, i) ==
    /\ att[c][i] = "fetch"
    /\ \E next \in {"done", "copy"} :
        LET a == [att[c] EXCEPT ![i] = next]
        IN  /\ att' = [att EXCEPT ![c] = a]
            /\ IF AllSaved(a) THEN Resolve(c, "ok", 0)
                              ELSE UNCHANGED <<pc, resp, nFinish, tool, opened>>
    /\ UNCHANGED <<req, mime, startVars, mailVars, filterVars, toolVars>>

\* The callback handed to NetUtil.asyncCopy for attachment i.
CopyCallback(c, i) ==
    /\ att[c][i] = "copy"
    /\ LET a == [att[c] EXCEPT ![i] = "done"]
       IN  /\ att' = [att EXCEPT ![c] = a]
           /\ IF AllSaved(a) THEN Resolve(c, "ok", 0)
                             ELSE UNCHANGED <<pc, resp, nFinish, tool, opened>>
    /\ UNCHANGED <<req, mime, startVars, mailVars, filterVars, toolVars>>

\* The connection is over (the response was finished, or the handler threw)
\* and can take the next request.
Close(c) ==
    /\ pc[c] \in {"done", "thrown"}
    /\ AllSaved(att[c])
    /\ req' = [req EXCEPT ![c] = NoRequest]
    /\ pc' = [pc EXCEPT ![c] = "free"]
    /\ resp' = [resp EXCEPT ![c] = NoResp]
    /\ nFinish' = [nFinish EXCEPT ![c] = 0]
    /\ tool' = [tool EXCEPT ![c] = "notrun"]
    /\ att' = [att EXCEPT ![c] = NoAtt]
    /\ opened' = [opened EXCEPT ![c] = 0]
    /\ UNCHANGED <<mime, startVars, mailVars, filterVars, toolVars>>

(***************************************************************************)
(* The host's mail store and deleteMessages (api.js 1701-1793).            *)
(* One account whose root folder holds Inbox, Drafts, Archive and, below   *)
(* Archive, a folder that carries the Trash flag when hasTrash holds (an   *)
(* account can lack a Trash folder, and reading a folder's flags can       *)
(* throw, which the search swallows).                                      *)
(***************************************************************************)
Folders == {"Root", "Inbox", "Drafts", "Archive", "Trash"}
Msgs == {"d1", "d2", "i1"}

DRAFTS_FLAG == 1024     \* 0x00000400
TRASH_FLAG  == 256      \* 0x00000100

\* folder.subFolders
SubFolders(f) ==
    CASE f = "Root"    -> <<"Inbox", "Drafts", "Archive">>
      [] f = "Archive" -> <<"Trash">>
      [] OTHER         -> << >>

\* folder.getFlag(flag)
GetFlag(f, flag, trash) ==
    \/ flag = DRAFTS_FLAG /\ f = "Drafts"
    \/ flag = TRASH_FLAG /\ f = "Trash" /\ trash

\* The folder paths a client can name: "undefined" is an omitted argument,
\* "nowhere" a URI the folder lookup does not know.
FolderPaths == {"undefined", "nowhere", "Inbox", "Drafts"}

\* The message ids a client can name in messageIds.
NamedMsgs == Msgs \cup {"zz"}

\* const stack = [root]; while (stack.length > 0 && !trashFolder) { ... }
RECURSIVE FindTrashFrom(_, _)
FindTrashFrom(stack, trash) ==
    IF Len(stack) = 0 THEN "none"
    ELSE LET current == stack[Len(stack)]
             rest    == SubSeq(stack, 1, Len(stack) - 1)
         IN  IF GetFlag(current, TRASH_FLAG, trash) THEN current
             ELSE FindTrashFrom(rest \o SubFolders(current), trash)

\* C9 mutant: the Drafts flag is never seen.
IsDraftsNever(folder) == FALSE

\* const isDrafts = typeof folder.getFlag === "function" && folder.getFlag(DRAFTS_FLAG)
IsDrafts(folder) == GetFlag(folder, DRAFTS_FLAG, FALSE)

NoMailOp == [tool |-> "none", folder |-> "undefined", result |-> "none", deleted |-> 0,
             movedToTrash |-> FALSE, called |-> "none", found |-> {}]

\* deleteMessages(messageIds, folderPath).  given is FALSE when messageIds is
\* no array; hostOk is FALSE when copyMessages or folder.deleteMessages throws.
DeleteMessages(given, ids, folderPath, hostOk) ==
    LET found == ids \cap (IF folderPath \in Folders THEN folderMsgs[folderPath] ELSE {})
        trashFolder == IF IsDrafts(folderPath) THEN FindTrashFrom(<<"Root">>, hasTrash)
                       ELSE "none"
        error == [NoMailOp EXCEPT !.tool = "deleteMessages", !.folder = folderPath,
                                  !.result = "error"]
    IN  IF ~given \/ ids = {}                     \* "messageIds must be a non-empty array of strings"
           \/ folderPath = "undefined"            \* "folderPath must be a non-empty string"
           \/ folderPath \notin Folders           \* openFolder: "Folder not found"
           \/ found = {}                          \* "No matching messages found"
        THEN /\ mailOp' = error
             /\ UNCHANGED <<folderMsgs, hardDeleted>>
        ELSE IF ~hostOk
        THEN /\ mailOp' = [error EXCEPT !.found = found,
                             !.called = IF trashFolder # "none" THEN "copyMessages"
                                        ELSE "deleteMessages"]
             /\ UNCHANGED <<folderMsgs, hardDeleted>>
        ELSE IF IsDrafts(folderPath) /\ trashFolder # "none"
        \* MailServices.copy.copyMessages(folder, found, trashFolder, true, ...)
        THEN /\ folderMsgs' = [folderMsgs EXCEPT ![folderPath] = @ \ found,
                                                 ![trashFolder] = @ \cup found]
             /\ mailOp' = [tool |-> "deleteMessages", folder |-> folderPath,
                           result |-> "success", deleted |-> Cardinality(found),
                           movedToTrash |-> TRUE, called |-> "copyMessages", found |-> found]
             /\ UNCHANGED hardDeleted
        \* folder.deleteMessages(found, null, false, true, null, false)
        ELSE /\ folderMsgs' = [folderMsgs EXCEPT ![folderPath] = @ \ found]
             /\ hardDeleted' = hardDeleted \cup found
             /\ mailOp' = [tool |-> "deleteMessages", folder |-> folderPath,
                           result |-> "success", deleted |-> Cardinality(found),
                           movedToTrash |-> FALSE, called |-> "deleteMessages", found |-> found]

CallDeleteMessages ==
    /\ \E given \in BOOLEAN, ids \in SUBSET NamedMsgs, folderPath \in FolderPaths,
          hostOk \in BOOLEAN :
          DeleteMessages(given, ids, folderPath, hostOk)
    /\ UNCHANGED <<hasTrash, startVars, httpVars, filterVars, toolVars>>

\* New mail arrives, the user saves a draft: a message not in any folder
\* (again) appears in Inbox or Drafts.
Deliver ==
    /\ \E m \in Msgs, f \in {"Inbox", "Drafts"} :
        /\ \A g \in Folders : m \notin folderMsgs[g]
        /\ folderMsgs' = [folderMsgs EXCEPT ![f] = @ \cup {m}]
        /\ hardDeleted' = hardDeleted \ {m}
    /\ mailOp' = NoMailOp
    /\ UNCHANGED <<hasTrash, startVars, httpVars, filterVars, toolVars>>

(***************************************************************************)
(* Filters (api.js 1938-2374).                                             *)
(***************************************************************************)
NaN == 0 - 1

\* ATTRIB_MAP[cond.attrib] ?? parseInt(cond.attrib)
AttribNum(a) ==
    CASE a = "subject" -> 0
      [] a = "from"    -> 1
      [] OTHER         -> NaN

\* OP_MAP[cond.op] ?? parseInt(cond.op)
OpNum(o) ==
    CASE o = "contains" -> 0
      [] o = "is"       -> 2
      [] OTHER          -> NaN

\* ACTION_MAP[act.type] ?? parseInt(act.type)
ActionNum(t) ==
    CASE t = "markRead" -> 5
      [] t = "reply"    -> 10
      [] t = "forward"  -> 11
      [] OTHER          -> NaN

\* The filter actions on which the host sends a message by itself when the
\* filter matches: nsMsgFilterAction.Reply (0x0A), .Forward (0x0B).
SendingActions == {10, 11}

\* The conditions and actions arguments a client can pass: no array at all
\* (given FALSE), an empty array, or an array of items.
ConditionArgs ==
    {[given |-> FALSE, items |-> << >>], [given |-> TRUE, items |-> << >>],
     [given |-> TRUE, items |-> <<[attrib |-> "subject", op |-> "contains"]>>],
     [given |-> TRUE, items |-> <<[attrib |-> "from", op |-> "is"]>>],
     [given |-> TRUE, items |-> <<[attrib |-> "subject", op |-> "contains"],
                                  [attrib |-> "nonsense", op |-> "contains"]>>],
     [given |-> TRUE, items |-> <<[attrib |-> "from", op |-> "nonsense"]>>]}

ActionArgs ==
    {[given |-> FALSE, items |-> << >>], [given |-> TRUE, items |-> << >>],
     [given |-> TRUE, items |-> <<[type |-> "markRead"]>>],
     [given |-> TRUE, items |-> <<[type |-> "forward"]>>],
     [given |-> TRUE, items |-> <<[type |-> "markRead"], [type |-> "nonsense"]>>]}

AccountIds == {"account1", "unknown"}
FilterNames == {"A", "B"}

\* Array.isArray(x) && x.length > 0
NonEmptyArray(x) == x.given /\ Len(x.items) > 0

\* buildTerms(filter, conditions): the terms appended, or a throw at the
\* first condition whose attribute or operator is unknown.
TermsThrow(conditions) ==
    \E i \in 1..Len(conditions) :
        AttribNum(conditions[i].attrib) = NaN \/ OpNum(conditions[i].op) = NaN
BuildTerms(conditions) ==
    [i \in 1..Len(conditions) |->
        [attrib |-> AttribNum(conditions[i].attrib), op |-> OpNum(conditions[i].op)]]

\* buildActions(filter, actions)
ActionsThrow(actions) == \E i \in 1..Len(actions) : ActionNum(actions[i].type) = NaN
BuildActions(actions) == [i \in 1..Len(actions) |-> ActionNum(actions[i].type)]

\* filterList.insertFilterAt(idx, filter), filterList.removeFilterAt(idx)
InsertFilterAt(list, idx, f) ==
    SubSeq(list, 1, idx) \o <<f>> \o SubSeq(list, idx + 1, Len(list))
RemoveFilterAt(list, idx) ==
    SubSeq(list, 1, idx) \o SubSeq(list, idx + 2, Len(list))

\* What a filter tool call leaves behind: the in-memory list, the list on
\* disk and the call's result.
FilterOutcome(which, list, disk, result) ==
    [tool |-> which, filters |-> list, saved |-> disk, result |-> result]

\* getFilterListForAccount(accountId) returns { error }
NoFilterList(accountId) == accountId # "account1"

\* An optional boolean argument is "true", "false" or "undefined"; an
\* optional number argument is the number, or Undefined when omitted.
Tri == {"undefined", "true", "false"}
Undefined == 0 - 99

\* C21 mutant: the new filter always goes to the top of the list.
CreateIndexTop(list, insertAtIndex) == 0

\* idx = (insertAtIndex != null && insertAtIndex >= 0)
\*         ? Math.min(insertAtIndex, filterList.filterCount) : filterList.filterCount
CreateIndex(list, insertAtIndex) ==
    IF insertAtIndex # Undefined /\ insertAtIndex >= 0
    THEN Min(insertAtIndex, Len(list)) ELSE Len(list)

\* createFilter(accountId, name, enabled, type, conditions, actions, insertAtIndex).
\* hostOk is FALSE when saveToDefaultFile throws.
CreateFilter(list, disk, accountId, name, enabled, type, conditions, actions, insertAtIndex, hostOk) ==
    IF \/ ~NonEmptyArray(conditions) \/ ~NonEmptyArray(actions)
       \/ NoFilterList(accountId)
       \/ TermsThrow(conditions.items) \/ ActionsThrow(actions.items)
    THEN FilterOutcome("createFilter", list, disk, "error")
    ELSE LET filter == [name |-> name,
                        enabled |-> (enabled # "false"),                          \* enabled !== false
                        type |-> IF type = Undefined \/ type = 0 THEN 17 ELSE type, \* type || 17
                        terms |-> BuildTerms(conditions.items),
                        actions |-> BuildActions(actions.items)]
             idx == CreateIndex(list, insertAtIndex)
             inserted == InsertFilterAt(list, idx, filter)
         IN  IF hostOk THEN FilterOutcome("createFilter", inserted, inserted, "success")
                       ELSE FilterOutcome("createFilter", inserted, disk, "error")

\* if (filterIndex < 0 || filterIndex >= filterList.filterCount)
BadIndex(list, filterIndex) == filterIndex < 0 \/ filterIndex >= Len(list)

\* updateFilter(accountId, filterIndex, name, enabled, type, conditions, actions)
UpdateFilter(list, disk, accountId, filterIndex, name, enabled, type, conditions, actions, hostOk) ==
    IF NoFilterList(accountId) \/ BadIndex(list, filterIndex)
    THEN FilterOutcome("updateFilter", list, disk, "error")
    ELSE LET filter == list[filterIndex + 1]
             \* filter.filterName = name; filter.enabled = enabled; filter.filterType = type
             \* are assignments to the filter held by the in-memory list
             props == [filter EXCEPT
                         !.name = IF name = "undefined" THEN @ ELSE name,
                         !.enabled = IF enabled = "undefined" THEN @ ELSE (enabled = "true"),
                         !.type = IF type = Undefined THEN @ ELSE type]
             touched == [list EXCEPT ![filterIndex + 1] = props]
             newFilter == [props EXCEPT
                         !.terms = IF NonEmptyArray(conditions)
                                   THEN BuildTerms(conditions.items) ELSE @,
                         !.actions = IF NonEmptyArray(actions)
                                     THEN BuildActions(actions.items) ELSE @]
             \* filterList.removeFilterAt(filterIndex); filterList.insertFilterAt(filterIndex, newFilter)
             replaced == InsertFilterAt(RemoveFilterAt(touched, filterIndex), filterIndex, newFilter)
             final == IF NonEmptyArray(conditions) \/ NonEmptyArray(actions)
                      THEN replaced ELSE touched
         IN  IF \/ NonEmptyArray(conditions) /\ TermsThrow(conditions.items)
                \/ NonEmptyArray(actions) /\ ActionsThrow(actions.items)
             THEN FilterOutcome("updateFilter", touched, disk, "error")
             ELSE IF hostOk THEN FilterOutcome("updateFilter", final, final, "success")
                            ELSE FilterOutcome("updateFilter", final, disk, "error")

\* C10 mutant: deleteFilter returns without saveToDefaultFile.
DeleteFilterNoSave(list, disk, accountId, filterIndex, hostOk) ==
    IF NoFilterList(accountId) \/ BadIndex(list, filterIndex)
    THEN FilterOutcome("deleteFilter", list, disk, "error")
    ELSE FilterOutcome("deleteFilter", RemoveFilterAt(list, filterIndex), disk, "success")

\* deleteFilter(accountId, filterIndex)
DeleteFilter(list, disk, accountId, filterIndex, hostOk) ==
    IF NoFilterList(accountId) \/ BadIndex(list, filterIndex)
    THEN FilterOutcome("deleteFilter", list, disk, "error")
    ELSE LET removed == RemoveFilterAt(list, filterIndex)
         IN  IF hostOk THEN FilterOutcome("deleteFilter", removed, removed, "success")
                       ELSE FilterOutcome("deleteFilter", removed, disk, "error")

\* C22 mutant: the filter is moved with the target index counted in the
\* list as it was before the removal.
ReorderFiltersShifted(list, disk, accountId, fromIndex, toIndex, hostOk) ==
    IF NoFilterList(accountId) \/ BadIndex(list, fromIndex) \/ BadIndex(list, toIndex)
    THEN FilterOutcome("reorderFilters", list, disk, "error")
    ELSE LET at == IF toIndex > fromIndex THEN toIndex - 1 ELSE toIndex
             moved == InsertFilterAt(RemoveFilterAt(list, fromIndex), at, list[fromIndex + 1])
         IN  IF hostOk THEN FilterOutcome("reorderFilters", moved, moved, "success")
                       ELSE FilterOutcome("reorderFilters", moved, disk, "error")

\* reorderFilters(accountId, fromIndex, toIndex)
ReorderFilters(list, disk, accountId, fromIndex, toIndex, hostOk) ==
    IF NoFilterList(accountId) \/ BadIndex(list, fromIndex) \/ BadIndex(list, toIndex)
    THEN FilterOutcome("reorderFilters", list, disk, "error")
    ELSE LET moved == InsertFilterAt(RemoveFilterAt(list, fromIndex), toIndex, list[fromIndex + 1])
         IN  IF hostOk THEN FilterOutcome("reorderFilters", moved, moved, "success")
                       ELSE FilterOutcome("reorderFilters", moved, disk, "error")

\* A filter tool call took the account's list from (filters, saved) to o.
FilterCall(o) ==
    /\ filters' = o.filters
    /\ saved' = o.saved
    /\ filterOp' = [tool |-> o.tool, result |-> o.result]

\* The index arguments a client can pass; insertAtIndex can also be omitted.
IndexArgs == {0 - 1, 0, 1, MaxFilters}

\* The tool calls, each with its arguments drawn from the sets given:
\* the conditions and actions a client passes, and whether the host's
\* saveToDefaultFile can throw (hosts holds FALSE).
CallCreateFilter(conditionArgs, actionArgs, hosts) ==
    /\ Len(filters) < MaxFilters
    /\ \E accountId \in AccountIds, name \in FilterNames, enabled \in {"undefined", "false"},
          conditions \in conditionArgs, actions \in actionArgs,
          insertAtIndex \in IndexArgs \cup {Undefined}, hostOk \in hosts :
          FilterCall(CreateFilter(filters, saved, accountId, name, enabled, Undefined,
                                  conditions, actions, insertAtIndex, hostOk))
    /\ UNCHANGED <<windows, sentByUser, sentByHost, applying, startVars, httpVars, mailVars, toolVars>>

CallUpdateFilter(conditionArgs, actionArgs, hosts) ==
    /\ \E accountId \in AccountIds, filterIndex \in IndexArgs,
          name \in {"undefined", "B"}, enabled \in Tri,
          conditions \in conditionArgs, actions \in actionArgs, hostOk \in hosts :
          FilterCall(UpdateFilter(filters, saved, accountId, filterIndex, name, enabled,
                                  Undefined, conditions, actions, hostOk))
    /\ UNCHANGED <<windows, sentByUser, sentByHost, applying, startVars, httpVars, mailVars, toolVars>>

CallDeleteFilter(hosts) ==
    /\ \E accountId \in AccountIds, filterIndex \in IndexArgs, hostOk \in hosts :
          FilterCall(DeleteFilter(filters, saved, accountId, filterIndex, hostOk))
    /\ UNCHANGED <<windows, sentByUser, sentByHost, applying, startVars, httpVars, mailVars, toolVars>>

CallReorderFilters(hosts) ==
    /\ \E accountId \in AccountIds, fromIndex \in IndexArgs, toIndex \in IndexArgs,
          hostOk \in hosts :
          FilterCall(ReorderFilters(filters, saved, accountId, fromIndex, toIndex, hostOk))
    /\ UNCHANGED <<windows, sentByUser, sentByHost, applying, startVars, httpVars, mailVars, toolVars>>

\* applyFilters(accountId, folderPath): hands the account's filter list to
\* filterService.applyFiltersToFolders, which returns at once; the host
\* runs the filters later (HostRunsFilters).
CallApplyFilters ==
    /\ \E accountId \in AccountIds, folderPath \in {"nowhere", "Inbox"} :
          IF NoFilterList(accountId) \/ folderPath \notin Folders
          THEN /\ filterOp' = [tool |-> "applyFilters", result |-> "error"]
               /\ UNCHANGED applying
          ELSE /\ filterOp' = [tool |-> "applyFilters", result |-> "success"]
               /\ applying' = TRUE
    /\ UNCHANGED <<filters, saved, windows, sentByUser, sentByHost, startVars, httpVars, mailVars, toolVars>>

\* The number of messages the host sends by itself when the filters at the
\* positions in `matched` match a message: one for each reply or forward action.
RECURSIVE SendsOf(_, _, _)
SendsOf(list, matched, i) ==
    IF i > Len(list) THEN 0
    ELSE (IF i \in matched /\ list[i].enabled
          THEN Cardinality({k \in 1..Len(list[i].actions) : list[i].actions[k] \in SendingActions})
          ELSE 0) + SendsOf(list, matched, i + 1)

\* The host's filter run after applyFiltersToFolders: every enabled filter
\* whose terms match a message of the folder executes its actions.
HostRunsFilters ==
    /\ applying
    /\ \E matched \in SUBSET (1..Len(filters)) :
          /\ sentByHost + SendsOf(filters, matched, 1) <= MaxSent
          /\ sentByHost' = sentByHost + SendsOf(filters, matched, 1)
    /\ applying' = FALSE
    /\ UNCHANGED <<filters, saved, windows, sentByUser, filterOp, startVars, httpVars, mailVars, toolVars>>

\* sendMail: composeMail(...) ends in OpenComposeWindowWithParams, or in
\* { error } when a host call throws.
CallSendMail ==
    /\ windows < MaxWindows
    /\ \E hostOk \in BOOLEAN :
          IF hostOk
          THEN /\ windows' = windows + 1
               /\ filterOp' = [tool |-> "sendMail", result |-> "success"]
          ELSE /\ filterOp' = [tool |-> "sendMail", result |-> "error"]
               /\ UNCHANGED windows
    /\ UNCHANGED <<filters, saved, sentByUser, sentByHost, applying, startVars, httpVars, mailVars, toolVars>>

\* The user reviews a compose window and sends the message, or closes it.
UserSends ==
    /\ windows > 0
    /\ sentByUser < MaxSent
    /\ windows' = windows - 1
    /\ sentByUser' = sentByUser + 1
    /\ UNCHANGED <<filters, saved, sentByHost, applying, filterOp, startVars, httpVars, mailVars, toolVars>>

UserDiscards ==
    /\ windows > 0
    /\ windows' = windows - 1
    /\ UNCHANGED <<filters, saved, sentByUser, sentByHost, applying, filterOp, startVars, httpVars, mailVars, toolVars>>

(***************************************************************************)
(* Compose windows and their attachments (api.js 595-617, 1346-1624).      *)
(* composeMail, replyToMessage and forwardMessage fill composeFields, add  *)
(* the files named in attachments and open a compose window.               *)
(***************************************************************************)
\* File paths a client can name: a file in a system directory, an ordinary
\* file, a symbolic link in the home directory to a private key, and a path
\* where no file exists.
Paths == {"/etc/passwd", "/home/u/notes.txt", "/home/u/link", "/home/u/missing"}

\* file.exists()
FileExists(p) == p # "/home/u/missing"

\* The attachments argument: given is FALSE when it is absent or no array.
\* The lists name no path twice (a repeated path is handled like its first
\* occurrence).
AttachmentArgs ==
    {[given |-> FALSE, list |-> << >>]} \cup
    {[given |-> TRUE, list |-> l] :
        l \in {m \in UNION {[1..n -> Paths] : n \in 0..MaxPaths} :
                  \A i, j \in DOMAIN m : i # j => m[i] # m[j]}}

\* addAttachments(composeFields, attachments): added holds the paths handed
\* to composeFields.addAttachment (result.added is their number).
AddAttachments(attachments) ==
    IF ~attachments.given THEN [added |-> << >>, failed |-> << >>]
    ELSE [added  |-> SelectSeq(attachments.list, FileExists),
          failed |-> SelectSeq(attachments.list, LAMBDA p : ~FileExists(p))]

\* The attachments of the original message: aMimeMsg.allUserAttachments.
OrigAtts == {"a1", "a2"}

\* The message a reply or forward names: mimeOk is FALSE when the callback
\* gets no aMimeMsg; copying an attachment in unreadable throws.
Originals ==
    {[atts |-> a, unreadable |-> u, mimeOk |-> m] :
        a \in SUBSET OrigAtts, u \in SUBSET OrigAtts, m \in BOOLEAN}

NoOriginal == [atts |-> {}, unreadable |-> {}, mimeOk |-> TRUE]

\* C12 mutant: no attachment of the original is copied.
CopyOriginalsNone(o) == {}

\* if (aMimeMsg && aMimeMsg.allUserAttachments) for (const att of ...)
\*   try { ...; composeFields.addAttachment(attachment); origAttCount++ } catch {}
CopyOriginals(o) == IF o.mimeOk THEN o.atts \ o.unreadable ELSE {}

NoCompose == [tool |-> "none", result |-> "none", window |-> FALSE, files |-> << >>,
              about |-> NoOriginal, originals |-> {}, failed |-> << >>, reported |-> 0]

ComposeError(which) == [NoCompose EXCEPT !.tool = which, !.result = "error"]

\* A compose window opened with the given attachments.  about is the message
\* whose attachments were read and reported the attachment count of the
\* result message (both forwardMessage only).
ComposeOpened(which, about, attResult, originals, reported) ==
    [tool |-> which, result |-> "success", window |-> TRUE, files |-> attResult.added,
     about |-> about, originals |-> originals, failed |-> attResult.failed,
     reported |-> reported]

\* composeMail: hostOk is FALSE when a host call in the try block throws.
ComposeMail(attachments, hostOk) ==
    IF ~hostOk THEN ComposeError("sendMail")
    ELSE ComposeOpened("sendMail", NoOriginal, AddAttachments(attachments), {}, 0)

\* replyToMessage: found is FALSE when findMessage returns an error.
ReplyToMessage(found, attachments, hostOk) ==
    IF ~found \/ ~hostOk THEN ComposeError("replyToMessage")
    ELSE ComposeOpened("replyToMessage", NoOriginal, AddAttachments(attachments), {}, 0)

\* forwardMessage
ForwardMessage(found, o, attachments, hostOk) ==
    IF ~found \/ ~hostOk THEN ComposeError("forwardMessage")
    ELSE LET origAtts  == CopyOriginals(o)
             attResult == AddAttachments(attachments)
         IN  ComposeOpened("forwardMessage", o, attResult, origAtts,
                           Cardinality(origAtts) + Len(attResult.added))

CallComposeMail ==
    /\ \E attachments \in AttachmentArgs, hostOk \in BOOLEAN :
          compose' = ComposeMail(attachments, hostOk)
    /\ UNCHANGED <<original, exceptAttach>>

CallReplyToMessage ==
    /\ \E found \in BOOLEAN, attachments \in AttachmentArgs, hostOk \in BOOLEAN :
          compose' = ReplyToMessage(found, attachments, hostOk)
    /\ UNCHANGED <<original, exceptAttach>>

CallForwardMessage ==
    /\ \E found \in BOOLEAN, attachments \in AttachmentArgs, hostOk \in BOOLEAN :
          compose' = ForwardMessage(found, original, attachments, hostOk)
    /\ UNCHANGED <<original, exceptAttach>>

\* Another message becomes the one the client names in messageId.
SelectOriginal ==
    /\ \E o \in Originals : o.unreadable \subseteq o.atts /\ original' = o
    /\ UNCHANGED <<compose, exceptAttach>>

(***************************************************************************)
(* searchMessages and getRecentMessages (api.js 726-826, 1626-1699).       *)
(* Time is counted in ticks of twelve hours; message dates, Date.now() and *)
(* parsed date arguments are ticks since the epoch (the code holds them in *)
(* microseconds, scaled alike on both sides of every comparison).          *)
(***************************************************************************)
TicksPerDay == 2                    \* 86400000 ms
Now == 10 * TicksPerDay             \* Date.now(): day 10, 00:00

\* MailServices.accounts.accounts and account.incomingServer.rootFolder
SearchAccounts == <<"acc1", "acc2">>
RootFolder(account) == IF account = "acc1" THEN "root1" ELSE "root2"

\* folder.subFolders
Children(f) ==
    CASE f = "root1"  -> <<"inbox1", "sent1">>
      [] f = "inbox1" -> <<"sub1">>
      [] f = "root2"  -> <<"inbox2", "trash2">>
      [] OTHER        -> << >>

SearchFolders == {"root1", "inbox1", "sub1", "sent1", "root2", "inbox2", "trash2"}

\* A message header: hit says whether the query "x" occurs in its subject,
\* author, recipients or cc list.
Hdr(id, date, read, hit) == [id |-> id, date |-> date, read |-> read, hit |-> hit]

\* db.enumerateMessages() of the small store.
SmallMessages(f) ==
    CASE f = "inbox1" -> <<Hdr(1, Now - 3, FALSE, TRUE), Hdr(2, Now - 1, TRUE, FALSE)>>
      [] f = "sub1"   -> <<Hdr(3, Now - 2, FALSE, TRUE)>>
      [] f = "sent1"  -> <<Hdr(4, Now - 4, TRUE, TRUE)>>
      [] f = "inbox2" -> <<Hdr(5, Now - 5, FALSE, FALSE), Hdr(6, 0, FALSE, TRUE)>>
      [] f = "trash2" -> <<Hdr(7, Now - 1, FALSE, TRUE)>>
      [] OTHER        -> << >>

\* The large store: inbox2 holds BigCount recent messages on three dates.
FolderMessages(f) ==
    IF store = "big" /\ f = "inbox2"
        THEN [i \in 1..BigCount |-> Hdr(100 + i, Now - (i % 3), FALSE, TRUE)]
        ELSE SmallMessages(f)

NoFault == [kind |-> "none", name |-> "", id |-> 0]

\* What can throw while the store is walked: account.incomingServer of an
\* account, folder.msgDatabase or folder.hasSubFolders of a folder, a
\* property of one message header.
Faults ==
    {NoFault,
     [kind |-> "account",    name |-> "acc1",   id |-> 0],
     [kind |-> "database",   name |-> "inbox1", id |-> 0],
     [kind |-> "subfolders", name |-> "inbox1", id |-> 0],
     [kind |-> "subfolders", name |-> "sent1",  id |-> 0],
     [kind |-> "message",    name |-> "",       id |-> 1]}

\* A date argument: absent, a date-only string (midnight UTC of its day), a
\* date-time string with the letter T, a date-time string that separates
\* date and time with a space, or a string Date cannot parse.
NoDate == [kind |-> "undefined", tick |-> 0]
DateArgs ==
    {NoDate, [kind |-> "invalid", tick |-> 0]} \cup
    {[kind |-> "date", tick |-> d * TicksPerDay] : d \in {8, 9}} \cup
    {[kind |-> k, tick |-> t] : k \in {"timeT", "spaced"}, t \in {8 * TicksPerDay + 1}}

\* startDate ? new Date(startDate).getTime() : NaN
ParseDate(d) == IF d.kind \in {"undefined", "invalid"} THEN NaN ELSE d.tick

\* Number.isFinite(parsedStartDate) ? parsedStartDate * 1000 : null
StartDateTs(startDate) == ParseDate(startDate)

\* endDate && !endDate.includes("T") ? 86400000 : 0
EndDateOffset(endDate) ==
    IF endDate.kind # "undefined" /\ endDate.kind # "timeT" THEN TicksPerDay ELSE 0

\* Number.isFinite(parsedEndDate) ? (parsedEndDate + endDateOffset) * 1000 : null
EndDateTs(endDate) ==
    IF ParseDate(endDate) = NaN THEN NaN ELSE ParseDate(endDate) + EndDateOffset(endDate)

\* A maxResults argument; a number is held in halves (halves = 5 is 2.5).
\* "infinity" is a JSON number beyond the double range, such as 1e999.
NoLimit == [kind |-> "undefined", halves |-> 0]
LimitArgs ==
    {NoLimit, [kind |-> "text", halves |-> 0], [kind |-> "null", halves |-> 0],
     [kind |-> "infinity", halves |-> 0]} \cup
    {[kind |-> "number", halves |-> h] :
        h \in {0 - 2, 0, 1, 4, 5, 2 * DEFAULT_MAX_RESULTS, 2 * MAX_SEARCH_RESULTS_CAP,
               2 * MAX_SEARCH_RESULTS_CAP + 1, 2 * BigCount + 2}}

\* C16 mutant: the limit is not capped.
EffectiveLimitUncapped(maxResults) ==
    IF maxResults.kind = "number" /\ maxResults.halves > 0
        THEN maxResults.halves \div 2 ELSE DEFAULT_MAX_RESULTS

\* Math.min(Number.isFinite(requestedLimit) && requestedLimit > 0
\*              ? Math.floor(requestedLimit) : DEFAULT_MAX_RESULTS,
\*          MAX_SEARCH_RESULTS_CAP)
\* Number(undefined) and Number("abc") are NaN, Number(null) is 0.
EffectiveLimit(maxResults) ==
    Min(IF maxResults.kind = "number" /\ maxResults.halves > 0
            THEN maxResults.halves \div 2 ELSE DEFAULT_MAX_RESULTS,
        MAX_SEARCH_RESULTS_CAP)

\* C17 mutant: every sort order is taken for ascending.
NormalizedSortOrderAsc(sortOrder) == "asc"

\* sortOrder === "asc" ? "asc" : "desc"
NormalizedSortOrder(sortOrder) == IF sortOrder = "asc" THEN "asc" ELSE "desc"

\* Number.isFinite(Number(daysBack)) && Number(daysBack) > 0 ? Math.floor(...) : 7
Days(daysBack) == IF daysBack > 0 THEN daysBack ELSE 7

\* (Date.now() - days * 86400000) * 1000
CutoffTs(daysBack) == Now - Days(daysBack) * TicksPerDay

\* The arguments of a call, in one shape for both tools.
NoSearchArgs ==
    [query |-> "", folderPath |-> "undefined", startDate |-> NoDate, endDate |-> NoDate,
     maxResults |-> NoLimit, sortOrder |-> "undefined", daysBack |-> 0,
     unreadOnly |-> FALSE]

\* The tests a message header passes before it is pushed to results.
Selected(which, a, m) ==
    IF which = "searchMessages"
        THEN /\ ~(StartDateTs(a.startDate) # NaN /\ m.date < StartDateTs(a.startDate))
             /\ ~(EndDateTs(a.endDate) # NaN /\ m.date > EndDateTs(a.endDate))
             /\ (a.query = "" \/ m.hit)
        ELSE /\ ~(m.date < CutoffTs(a.daysBack))
             /\ ~(a.unreadOnly /\ m.read)

\* The try block of searchFolder / collectFromFolder: the messages of one
\* folder, up to the first header whose access throws, are tested and
\* pushed until SEARCH_COLLECTION_CAP is reached; the catch swallows the
\* exception and keeps what was pushed.
ScanFolder(which, a, f, results) ==
    IF fault.kind = "database" /\ fault.name = f THEN results
    ELSE LET msgs == FolderMessages(f)
             bad  == {i \in 1..Len(msgs) : fault.kind = "message" /\ msgs[i].id = fault.id}
             stop == IF bad = {} THEN Len(msgs)
                     ELSE (CHOOSE i \in bad : \A j \in bad : i <= j) - 1
             hits == SelectSeq(SubSeq(msgs, 1, stop), LAMBDA m : Selected(which, a, m))
             room == SEARCH_COLLECTION_CAP - Len(results)
             kept == Min(Len(hits), room)
         IN  results \o [i \in 1..kept |->
                            [id |-> hits[i].id, date |-> hits[i].date, folder |-> f]]

\* searchFolder(folder) / collectFromFolder(folder): thrown is set when
\* folder.hasSubFolders, which is read outside the try, throws.
RECURSIVE CollectFolder(_, _, _, _)
RECURSIVE CollectChildren(_, _, _, _, _)
CollectFolder(which, a, f, acc) ==
    IF acc.thrown \/ Len(acc.results) >= SEARCH_COLLECTION_CAP THEN acc
    ELSE LET scanned == ScanFolder(which, a, f, acc.results)
         IN  IF fault.kind = "subfolders" /\ fault.name = f
                 THEN [results |-> scanned, thrown |-> TRUE]
                 ELSE CollectChildren(which, a, Children(f), 1,
                                      [results |-> scanned, thrown |-> FALSE])

\* for (const subfolder of folder.subFolders) { if (cap reached) break; ... }
CollectChildren(which, a, kids, i, acc) ==
    IF i > Len(kids) \/ acc.thrown \/ Len(acc.results) >= SEARCH_COLLECTION_CAP THEN acc
    ELSE CollectChildren(which, a, kids, i + 1, CollectFolder(which, a, kids[i], acc))

\* for (const account of MailServices.accounts.accounts): searchMessages
\* reads account.incomingServer.rootFolder outside any try; getRecentMessages
\* wraps the body in a try whose catch skips the rest of the account.
RECURSIVE CollectAccounts(_, _, _, _)
CollectAccounts(which, a, i, acc) ==
    IF i > Len(SearchAccounts) \/ acc.thrown \/ Len(acc.results) >= SEARCH_COLLECTION_CAP
        THEN acc
    ELSE LET account == SearchAccounts[i]
             broken  == fault.kind = "account" /\ fault.name = account
             walked  == IF broken THEN [acc EXCEPT !.thrown = TRUE]
                        ELSE CollectFolder(which, a, RootFolder(account), acc)
         IN  CollectAccounts(which, a, i + 1,
                 IF which = "getRecentMessages" THEN [walked EXCEPT !.thrown = FALSE]
                 ELSE walked)

\* results.sort(...): a stable sort by _dateTs, computed date by date.
RECURSIVE SortedFrom(_, _, _)
SortedFrom(results, d, order) ==
    IF d < 0 \/ d > Now THEN << >>
    ELSE SelectSeq(results, LAMBDA r : r.date = d)
             \o SortedFrom(results, IF order = "asc" THEN d + 1 ELSE d - 1, order)

Sort(results, order) == SortedFrom(results, IF order = "asc" THEN 0 ELSE Now, order)

\* results.slice(0, effectiveLimit)
Slice(results, limit) == SubSeq(results, 1, Min(Len(results), limit))

NoSearch == [tool |-> "none", args |-> NoSearchArgs, outcome |-> "none", results |-> << >>]

SearchOutcome(which, a, outcome, results) ==
    [tool |-> which, args |-> a, outcome |-> outcome, results |-> results]

\* searchMessages: outcome "throw" is an exception that leaves the handler.
SearchMessages(a) ==
    LET empty == [results |-> << >>, thrown |-> FALSE]
        acc == IF a.folderPath # "undefined"
                   THEN CollectFolder("searchMessages", a, a.folderPath, empty)
                   ELSE CollectAccounts("searchMessages", a, 1, empty)
    IN  IF a.folderPath # "undefined" /\ a.folderPath \notin SearchFolders
            THEN SearchOutcome("searchMessages", a, "error", << >>)
        ELSE IF acc.thrown THEN SearchOutcome("searchMessages", a, "throw", << >>)
        ELSE SearchOutcome("searchMessages", a, "ok",
                 Slice(Sort(acc.results, NormalizedSortOrder(a.sortOrder)),
                       EffectiveLimit(a.maxResults)))

\* getRecentMessages: openFolder returns an error for an unknown folder and
\* for one whose msgDatabase throws.
GetRecentMessages(a) ==
    LET empty == [results |-> << >>, thrown |-> FALSE]
        acc == IF a.folderPath # "undefined"
                   THEN CollectFolder("getRecentMessages", a, a.folderPath, empty)
                   ELSE CollectAccounts("getRecentMessages", a, 1, empty)
    IN  IF a.folderPath # "undefined"
              /\ (a.folderPath \notin SearchFolders
                    \/ (fault.kind = "database" /\ fault.name = a.folderPath))
            THEN SearchOutcome("getRecentMessages", a, "error", << >>)
        ELSE IF acc.thrown THEN SearchOutcome("getRecentMessages", a, "throw", << >>)
        ELSE SearchOutcome("getRecentMessages", a, "ok",
                 Slice(Sort(acc.results, "desc"), EffectiveLimit(a.maxResults)))

CallSearchMessages(argSet) ==
    /\ \E a \in argSet : search' = SearchMessages(a)
    /\ UNCHANGED <<store, fault, exceptSearch>>

CallGetRecentMessages(argSet) ==
    /\ \E a \in argSet : search' = GetRecentMessages(a)
    /\ UNCHANGED <<store, fault, exceptSearch>>

(***************************************************************************)
(* updateMessage (api.js 1795-1891) on one message, m1, which lies in      *)
(* Inbox at first.                                                         *)
(***************************************************************************)
UpdateFolders == {"Inbox", "Archive", "Trash"}

\* Arguments: "undefined" is an omitted argument, "empty" the empty string
\* (or a value that is no string), "strue" the string "true".
MessageIdArgs    == {"empty", "m1"}
UpdateFolderArgs == {"empty", "Inbox", "Archive"}
MarkArgs         == {"undefined", "true", "false"}
MoveToArgs       == {"undefined", "empty", "Archive", "nowhere"}
TrashArgs        == {"undefined", "true", "strue", "false"}

\* What the host does: all is well, the account holds no Trash folder, or
\* copyMessages throws.
UpdateHosts == {"ok", "noTrash", "copyThrows"}

\* read = read === true || read === "true"
Coerce(b) == b \in {"true", "strue"}

\* C15 mutant: the combination of moveTo and trash is not tested.
BothGivenNever(moveTo, trash) == FALSE

\* if (moveTo && trash === true)
BothGiven(moveTo, trash) == moveTo \notin {"undefined", "empty"} /\ Coerce(trash)

UpdateResult(ms, result, error) == [msg |-> ms, result |-> result, error |-> error]

\* updateMessage(messageId, folderPath, read, flagged, moveTo, trash) on the
\* message state ms: the state it leaves and what it returns.
UpdateMessage(ms, messageId, folderPath, read, flagged, moveTo, trash, host) ==
    LET marked == [ms EXCEPT !.read    = IF read = "undefined" THEN @ ELSE Coerce(read),
                             !.flagged = IF flagged = "undefined" THEN @ ELSE Coerce(flagged)]
        target == IF Coerce(trash) THEN "Trash"
                  ELSE IF moveTo \notin {"undefined", "empty"} THEN moveTo
                  ELSE "none"
    IN  IF messageId = "empty" THEN UpdateResult(ms, "error", "messageId")
        ELSE IF folderPath = "empty" THEN UpdateResult(ms, "error", "folderPath")
        ELSE IF moveTo = "empty" THEN UpdateResult(ms, "error", "moveTo")
        ELSE IF BothGiven(moveTo, trash) THEN UpdateResult(ms, "error", "both")
        \* findMessage(messageId, folderPath)
        ELSE IF folderPath # ms.folder THEN UpdateResult(ms, "error", "notFound")
        \* msgHdr.markRead(read); msgHdr.markFlagged(flagged) come first
        ELSE IF Coerce(trash) /\ host = "noTrash"
            THEN UpdateResult(marked, "error", "noTrash")
        ELSE IF target = "nowhere" THEN UpdateResult(marked, "error", "moveToNotFound")
        ELSE IF target # "none" /\ host = "copyThrows"
            THEN UpdateResult(marked, "error", "host")
        ELSE IF target # "none"
            THEN UpdateResult([marked EXCEPT !.folder = target], "success", "none")
        ELSE UpdateResult(marked, "success", "none")

NoUpdateOp ==
    [result |-> "none", error |-> "none", messageId |-> "empty", folderPath |-> "empty",
     marks |-> FALSE, moveTo |-> "undefined", trash |-> "undefined", changed |-> FALSE]

CallUpdateMessage ==
    /\ \E messageId \in MessageIdArgs, folderPath \in UpdateFolderArgs,
          read \in MarkArgs, flagged \in MarkArgs, moveTo \in MoveToArgs,
          trash \in TrashArgs, host \in UpdateHosts :
          LET o == UpdateMessage(msgState, messageId, folderPath, read, flagged,
                                 moveTo, trash, host)
          IN  /\ msgState' = o.msg
              /\ updateOp' = [result |-> o.result, error |-> o.error,
                              messageId |-> messageId, folderPath |-> folderPath,
                              marks |-> (read # "undefined" \/ flagged # "undefined"),
                              moveTo |-> moveTo, trash |-> trash,
                              changed |-> (o.msg # msgState)]
    /\ UNCHANGED exceptUpdate

\* The user moves the message back to Inbox.
UserMovesBack ==
    /\ msgState.folder # "Inbox"
    /\ msgState' = [msgState EXCEPT !.folder = "Inbox"]
    /\ UNCHANGED <<updateOp, exceptUpdate>>

(***************************************************************************)
(* createEvent (api.js 879-1008).  Instants are milliseconds of local      *)
(* time counted from a local midnight; the time zone has a fixed offset.   *)
(* cal.dtz.jsDateToDateTime belongs to the host and is taken to keep the   *)
(* instant it is given.                                                    *)
(***************************************************************************)
HourMs == 3600000
DayMs == 24 * HourMs

\* new Date(y, m, d) of an instant: the local midnight of its day.
DayStart(t) == (t \div DayMs) * DayMs

\* The instants the arguments are drawn from: on each day midnight, one
\* millisecond past midnight, and 23:00.
EventTimes == {d * DayMs + o : d \in 0..MaxDay, o \in {0, 1, 23 * HourMs}}

\* startDate and endDate: omitted, the empty string, a string that is no
\* date, or an ISO date for the instant t.
NoEventDate == [kind |-> "undefined", t |-> NaN]
EventDateArgs ==
    {NoEventDate, [kind |-> "empty", t |-> NaN], [kind |-> "invalid", t |-> NaN]}
        \cup {[kind |-> "date", t |-> t] : t \in EventTimes}

\* new Date(x).getTime()
EventDateTs(d) == IF d.kind = "date" THEN d.t ELSE NaN

AllDayArgs == {"undefined", "true", "false"}

\* What the host offers: all is well, no calendar module, no mail window,
\* the calendarId is unknown or read-only, or no calendar is writable.
EventHosts == {"ok", "noModule", "noWindow", "calendarNotFound", "readOnly", "noWritable"}

\* C20 mutant: an end equal to the start is let through.
TimedEndRejectedOnlyBefore(startJs, endJs) == endJs < startJs

\* else if (endJs.getTime() <= startJs.getTime())
TimedEndRejected(startJs, endJs) == endJs <= startJs

\* if (endDay.getTime() < startDay.getTime())
AllDayEndRejected(startJs, endJs) == DayStart(endJs) < DayStart(startJs)

NoDialog == [isDate |-> FALSE, start |-> NaN, end |-> NaN]

\* event.startDate and event.endDate as lines 914-962 set them.
EventDates(startJs, hasEnd, endJs, allDay) ==
    IF allDay
    THEN [isDate |-> TRUE,
          start  |-> DayStart(startJs),
          end    |-> IF hasEnd
                     THEN IF DayStart(endJs) <= DayStart(startJs)
                          THEN DayStart(endJs) + DayMs
                          ELSE DayStart(endJs)
                     ELSE DayStart(startJs + DayMs)]
    ELSE [isDate |-> FALSE,
          start  |-> startJs,
          end    |-> IF hasEnd THEN endJs ELSE startJs + HourMs]

EventError(error) == [result |-> "error", error |-> error, opened |-> FALSE, dialog |-> NoDialog]

\* createEvent(title, startDate, endDate, location, description, calendarId,
\* allDay): what it returns and the dialog it opens.
CreateEvent(startDate, endDate, allDayArg, host) ==
    LET startJs == EventDateTs(startDate)
        hasEnd  == endDate.kind \notin {"undefined", "empty"}
        endJs   == EventDateTs(endDate)
        allDay  == allDayArg = "true"
    IN  IF host = "noModule" THEN EventError("noModule")
        ELSE IF host = "noWindow" THEN EventError("noWindow")
        ELSE IF startJs = NaN THEN EventError("startDate")
        ELSE IF hasEnd /\ endJs = NaN THEN EventError("endDate")
        ELSE IF hasEnd /\ allDay /\ AllDayEndRejected(startJs, endJs)
            THEN EventError("endBeforeStart")
        ELSE IF hasEnd /\ ~allDay /\ TimedEndRejected(startJs, endJs)
            THEN EventError("endNotAfterStart")
        ELSE IF host \in {"calendarNotFound", "readOnly", "noWritable"}
            THEN EventError(host)
        ELSE [result |-> "success", error |-> "none", opened |-> TRUE,
              dialog |-> EventDates(startJs, hasEnd, endJs, allDay)]

NoEventOp ==
    [startDate |-> NoEventDate, endDate |-> NoEventDate, allDay |-> "undefined",
     result |-> "none", error |-> "none", opened |-> FALSE, dialog |-> NoDialog]

CallCreateEvent ==
    /\ \E startDate \in EventDateArgs, endDate \in EventDateArgs,
          allDay \in AllDayArgs, host \in EventHosts :
          LET o == CreateEvent(startDate, endDate, allDay, host)
          IN  eventOp' = [startDate |-> startDate, endDate |-> endDate,
                          allDay |-> allDay, result |-> o.result, error |-> o.error,
                          opened |-> o.opened, dialog |-> o.dialog]
    /\ UNCHANGED exceptEvent

(***************************************************************************)
(* The filter tools as their caller sees them (api.js 2125-2331): an       *)
(* account that holds filters already, and for each call its arguments,    *)
(* the list it found and the index it returned.                            *)
(***************************************************************************)
StoredNames == <<"P", "Q", "R", "S", "T">>

\* A filter the user made earlier.
StoredFilter(name) ==
    [name |-> name, enabled |-> TRUE, type |-> 17,
     terms |-> BuildTerms(<<[attrib |-> "subject", op |-> "contains"]>>),
     actions |-> BuildActions(<<[type |-> "markRead"]>>)]

\* The lists the account can hold when the first call arrives.
StoredLists == {[i \in 1..n |-> StoredFilter(StoredNames[i])] : n \in 0..MaxOrder}

NoFilterCall ==
    [accountId |-> "none", name |-> "undefined", a |-> Undefined, b |-> Undefined,
     index |-> Undefined, before |-> << >>, disk |-> << >>]

\* A filter tool call took the account's list from (filters, saved) to o;
\* a and b are its index arguments, index the index it returned.
ListCall(o, accountId, name, a, b, index) ==
    /\ FilterCall(o)
    /\ filterCall' = [accountId |-> accountId, name |-> name, a |-> a, b |-> b,
                      index |-> IF o.result = "success" THEN index ELSE Undefined,
                      before |-> filters, disk |-> saved]
    /\ UNCHANGED <<windows, sentByUser, sentByHost, applying, startVars, httpVars, mailVars,
                   attachVars, searchVars, updateVars, eventVars>>

\* The conditions a caller passes: none, one that builds, and one that
\* throws after a first item was built.
CallerConditions ==
    {c \in ConditionArgs : ~c.given \/ (Len(c.items) > 0 /\ c.items[1].attrib = "subject")}

ListIndexArgs == (0 - 1)..(MaxOrder + 1)

ListCreateFilter ==
    /\ Len(filters) < MaxOrder
    /\ \E accountId \in AccountIds, conditions \in CallerConditions,
          insertAtIndex \in ListIndexArgs \cup {Undefined} :
          ListCall(CreateFilter(filters, saved, accountId, "A", "undefined", Undefined,
                                conditions, [given |-> TRUE, items |-> <<[type |-> "markRead"]>>],
                                insertAtIndex, TRUE),
                   accountId, "A", insertAtIndex, Undefined,
                   CreateIndex(filters, insertAtIndex))

ListUpdateFilter ==
    \E filterIndex \in ListIndexArgs, name \in {"undefined", "B"},
       conditions \in CallerConditions, hostOk \in BOOLEAN :
       ListCall(UpdateFilter(filters, saved, "account1", filterIndex, name, "undefined",
                             Undefined, conditions, [given |-> FALSE, items |-> << >>], hostOk),
                "account1", name, filterIndex, Undefined, filterIndex)

ListReorderFilters ==
    \E fromIndex \in ListIndexArgs, toIndex \in ListIndexArgs :
       ListCall(ReorderFilters(filters, saved, "account1", fromIndex, toIndex, TRUE),
                "account1", "undefined", fromIndex, toIndex, Undefined)

(***************************************************************************)
(* Initial states and specifications.                                      *)
(***************************************************************************)
StartIdle ==
    /\ startPromise = NullPromise
    /\ startAttempts = 0
    /\ calls = [c \in CallIds |-> [pc |-> "idle", result |-> FailResult]]
    /\ firstOutcome = "none"
    /\ loads = 1

HttpIdle ==
    /\ req = [c \in Conns |-> NoRequest]
    /\ pc = [c \in Conns |-> "free"]
    /\ resp = [c \in Conns |-> NoResp]
    /\ nFinish = [c \in Conns |-> 0]
    /\ tool = [c \in Conns |-> "notrun"]
    /\ mime = [c \in Conns |-> FALSE]
    /\ att = [c \in Conns |-> NoAtt]
    /\ opened = [c \in Conns |-> 0]

MailIdle ==
    /\ folderMsgs = [f \in Folders |->
                        CASE f = "Drafts" -> {"d1", "d2"}
                          [] f = "Inbox"  -> {"i1"}
                          [] OTHER        -> {}]
    /\ hardDeleted = {}
    /\ mailOp = NoMailOp

FilterIdle ==
    /\ filters = << >>
    /\ saved = << >>
    /\ windows = 0
    /\ sentByUser = 0
    /\ sentByHost = 0
    /\ applying = FALSE
    /\ filterOp = [tool |-> "none", result |-> "none"]

AttachIdle ==
    /\ original = NoOriginal
    /\ compose = NoCompose

SearchIdle ==
    /\ store = "small"
    /\ fault = NoFault
    /\ search = NoSearch

UpdateIdle ==
    /\ msgState = [read |-> FALSE, flagged |-> FALSE, folder |-> "Inbox"]
    /\ updateOp = NoUpdateOp

EventIdle == eventOp = NoEventOp

ListIdle == filterCall = NoFilterCall

ToolsIdle == AttachIdle /\ SearchIdle /\ UpdateIdle /\ EventIdle /\ ListIdle

\* mcpServer.start(): the port may be held by another process.
InitStart == StartIdle /\ portFree \in BOOLEAN /\ HttpIdle /\ MailIdle /\ hasTrash = TRUE /\ FilterIdle /\ ToolsIdle
NextStart == (\E c \in CallIds : Start(c) \/ StartReturn(c)) \/ Reload
SpecStart == InitStart /\ [][NextStart]_vars

\* The HTTP endpoint of a started server.
InitHttp == StartIdle /\ portFree = TRUE /\ HttpIdle /\ MailIdle /\ hasTrash = TRUE /\ FilterIdle /\ ToolsIdle
NextHttp ==
    \E c \in Conns :
        \/ Receive(c)
        \/ Handle(c)
        \/ MimeCallback(c)
        \/ \E i \in 1..MaxAtt : FetchCallback(c, i) \/ CopyCallback(c, i)
        \/ Close(c)
SpecHttp == InitHttp /\ [][NextHttp]_vars

\* deleteMessages on an account with or without a Trash folder.
InitMail == StartIdle /\ portFree = TRUE /\ HttpIdle /\ MailIdle /\ hasTrash \in BOOLEAN /\ FilterIdle /\ ToolsIdle
NextMail == CallDeleteMessages \/ Deliver
SpecMail == InitMail /\ [][NextMail]_vars

\* The conditions and actions the filter list machine is driven with: none
\* given, one that builds, and one that throws after a first item was built.
ListConditions ==
    {c \in ConditionArgs : ~c.given \/ (Len(c.items) > 0 /\ c.items[1].attrib = "subject")}
ListActions ==
    {a \in ActionArgs : ~a.given \/ (Len(a.items) > 0 /\ a.items[1].type = "markRead")}

\* The filter tools on one account's filter list.  saveToDefaultFile is
\* taken to throw under deleteFilter and reorderFilters only, which keeps
\* the pairs of in-memory and saved lists few.
InitFilter == StartIdle /\ portFree = TRUE /\ HttpIdle /\ MailIdle /\ hasTrash = TRUE /\ FilterIdle /\ ToolsIdle
NextFilter ==
    \/ CallCreateFilter(ListConditions, ListActions, {TRUE})
    \/ CallUpdateFilter(ListConditions, ListActions, {TRUE})
    \/ CallDeleteFilter(BOOLEAN)
    \/ CallReorderFilters(BOOLEAN)
SpecFilter == InitFilter /\ [][NextFilter]_vars

\* Everything that can lead to a message being sent: the compose tool, the
\* user at a compose window, filters with their actions and filter runs.
SendConditions == {c \in ConditionArgs : Len(c.items) = 1 /\ c.items[1].attrib = "subject"}
SendActions == {a \in ActionArgs : Len(a.items) = 1}
NextSend ==
    \/ CallSendMail
    \/ UserSends
    \/ UserDiscards
    \/ CallCreateFilter(SendConditions, SendActions, {TRUE})
    \/ CallUpdateFilter(SendConditions, SendActions, {TRUE})
    \/ CallDeleteFilter({TRUE})
    \/ CallApplyFilters
    \/ HostRunsFilters
SpecSend == InitFilter /\ [][NextSend]_vars

\* The compose tools and the files they attach.
NextAttach ==
    \/ CallComposeMail
    \/ CallReplyToMessage
    \/ CallForwardMessage
    \/ SelectOriginal
SpecAttach == InitFilter /\ [][NextAttach]_vars

\* Everything but the search tools is idle.
IdleExceptSearch ==
    StartIdle /\ portFree = TRUE /\ HttpIdle /\ MailIdle /\ hasTrash = TRUE /\ FilterIdle
        /\ AttachIdle /\ UpdateIdle /\ EventIdle /\ ListIdle

\* The search tools under every maxResults, on a small and on a large store.
LimitSearches ==
    {[NoSearchArgs EXCEPT !.maxResults = m, !.sortOrder = o, !.query = q] :
        m \in LimitArgs, o \in {"undefined", "asc"}, q \in {"", "x"}}
LimitRecents ==
    {[NoSearchArgs EXCEPT !.maxResults = m, !.unreadOnly = u] :
        m \in LimitArgs, u \in BOOLEAN}
InitLimit ==
    IdleExceptSearch /\ store \in {"small", "big"} /\ fault = NoFault /\ search = NoSearch
NextLimit ==
    \/ CallSearchMessages(LimitSearches)
    \/ CallGetRecentMessages(LimitRecents)
SpecLimit == InitLimit /\ [][NextLimit]_vars

\* The search tools on the small store, one item of which may be broken.
FolderPathArgs == {"undefined", "inbox1", "root2", "nowhere"}
FolderSearches ==
    {[NoSearchArgs EXCEPT !.sortOrder = o, !.folderPath = f, !.query = q] :
        o \in {"undefined", "asc", "desc", "ASC"}, f \in FolderPathArgs, q \in {"", "x"}}
DateSearches ==
    {[NoSearchArgs EXCEPT !.startDate = b, !.endDate = e] : b \in DateArgs, e \in DateArgs}
Recents ==
    {[NoSearchArgs EXCEPT !.folderPath = f, !.daysBack = d, !.unreadOnly = u] :
        f \in FolderPathArgs, d \in {0, 1, 100}, u \in BOOLEAN}
InitSearch ==
    IdleExceptSearch /\ store = "small" /\ fault \in Faults /\ search = NoSearch
NextSearch ==
    \/ CallSearchMessages(FolderSearches \cup DateSearches)
    \/ CallGetRecentMessages(Recents)
SpecSearch == InitSearch /\ [][NextSearch]_vars

\* updateMessage on one message.
NextUpdate ==
    \/ CallUpdateMessage
    \/ UserMovesBack
SpecUpdate == InitFilter /\ [][NextUpdate]_vars

\* createEvent.
NextEvent == CallCreateEvent
SpecEvent == InitFilter /\ [][NextEvent]_vars

\* The filter tools on an account that holds filters already.
InitList ==
    /\ StartIdle /\ portFree = TRUE /\ HttpIdle /\ MailIdle /\ hasTrash = TRUE /\ ToolsIdle
    /\ filters \in StoredLists /\ saved = filters
    /\ windows = 0 /\ sentByUser = 0 /\ sentByHost = 0 /\ applying = FALSE
    /\ filterOp = [tool |-> "none", result |-> "none"]
NextList ==
    \/ ListCreateFilter
    \/ ListReorderFilters
SpecList == InitList /\ [][NextList]_vars

\* updateFilter on such an account; saveToDefaultFile may throw.
NextEdit == ListUpdateFilter
SpecEdit == InitList /\ [][NextEdit]_vars

(***************************************************************************)
(* Properties.                                                             *)
(***************************************************************************)
IsToolsCall(r) ==
    r.method = "POST" /\ r.body.kind = "object" /\ r.body.method = "tools/call"

\* C1 (SpecSend): no sequence of tool calls causes a message to be sent
\* without the user acting in a compose window: every message sent was sent
\* by the user from a compose window, none by the host on its own, also
\* after createFilter/updateFilter followed by applyFilters.
C1_NothingSentWithoutUser == sentByHost = 0

\* C2 (SpecHttp): a request that carries no valid Authorization: Bearer
\* token is rejected: it gets no result and reaches neither tools/list nor a
\* tool handler, whatever its method or body.
C2_AuthRequired ==
    \A c \in Conns :
        (pc[c] \in {"awaiting", "done", "thrown"} /\ req[c].auth # "valid")
            => /\ tool[c] = "notrun"
               /\ ~resp[c].hasResult
               /\ resp[c].payload = "none"

\* What the claims call a JSON-RPC envelope answering request r: a body
\* with exactly one of result and error, and the id of the request (no id
\* member for a request without one).
IsEnvelopeFor(r, w) ==
    /\ w.body = "jsonrpc"
    /\ w.hasResult # w.hasError
    /\ \/ r.body.id = "undefined" /\ w.id = "absent"
       \/ r.body.id # "undefined" /\ w.id = r.body.id

\* C3 as stated (SpecHttp): every response written for a POST request whose
\* body parses as JSON is a JSON-RPC envelope with exactly one of result and
\* error and the id of the request.
C3_EveryJsonResponseIsEnvelope ==
    \A c \in Conns :
        (resp[c].body # "none" /\ req[c].method = "POST" /\ req[c].body.kind # "invalid")
            => IsEnvelopeFor(req[c], resp[c])

\* C3 as amended (SpecHttp): every response written for a POST request
\* whose body is a JSON object with method tools/list or tools/call is a
\* JSON-RPC envelope with exactly one of result and error and the id of the
\* request.
C3_ToolResponseIsEnvelope ==
    \A c \in Conns :
        (/\ resp[c].body # "none" /\ req[c].method = "POST" /\ req[c].body.kind = "object"
         /\ req[c].body.method \in {"tools/list", "tools/call"})
            => IsEnvelopeFor(req[c], resp[c])

\* C3 witness: a tools/call carrying an id was answered with a result, and
\* one without an id with an error.
C3_Witness ==
    \E c, d \in Conns :
        /\ pc[c] = "done" /\ IsToolsCall(req[c]) /\ req[c].body.id = "7" /\ resp[c].hasResult
        /\ pc[d] = "done" /\ IsToolsCall(req[d]) /\ req[d].body.id = "undefined" /\ resp[d].hasError

\* The status the claim gives a request.
ClaimedStatus(r) ==
    IF r.method # "POST" THEN 405
    ELSE IF r.body.kind = "invalid" THEN 400
    ELSE IF r.body.method \notin {"tools/list", "tools/call"} THEN 404
    ELSE 200

\* C4 (SpecHttp): once the handler is through with a request, the status is
\* 405 for a method other than POST, else 400 for a body that is not JSON,
\* else 404 for a JSON-RPC method other than tools/list and tools/call, else
\* 200; and a request answered 405, 400 or 404 ran no tool handler and
\* changed nothing in the host.
C4_StatusFromRequest ==
    \A c \in Conns :
        pc[c] \in {"done", "thrown"}
            => /\ resp[c].status = ClaimedStatus(req[c])
               /\ resp[c].status \in {405, 400, 404} => (tool[c] = "notrun" /\ opened[c] = 0)

\* C5 (SpecHttp): a response to a tools/call is written and finished only
\* when the tool handler has settled and no host callback of the request is
\* outstanding: not the MsgHdrToMimeMessage callback, not the fetch or copy
\* callback of any attachment.
C5_ResponseAfterHandler ==
    \A c \in Conns :
        (IsToolsCall(req[c]) /\ (resp[c].body # "none" \/ nFinish[c] > 0))
            => /\ tool[c] # "pending"
               /\ ~mime[c]
               /\ AllSaved(att[c])

\* C5 witness: getMessage with saveAttachments was answered after every
\* attachment of the message was saved.
C5_Witness ==
    \E c \in Conns :
        /\ pc[c] = "done" /\ IsToolsCall(req[c])
        /\ req[c].body.params.name = "getMessage"
        /\ req[c].body.params.arguments.saveAttachments
        /\ \A i \in 1..MaxAtt : att[c][i] = "done"
        /\ resp[c].payload = "ok" /\ nFinish[c] = 1

\* C6 (SpecHttp): every JSON-RPC error object carries the code -32000, with
\* status 200 and no result; a tools/call without params.name, one naming a
\* tool outside the catalog and one whose handler threw are answered so; a
\* failure caught inside a handler is an { error } payload inside result.
C6_SingleErrorCode ==
    \A c \in Conns :
        pc[c] = "done" =>
            /\ resp[c].hasError =>
                  (resp[c].code = 0 - 32000 /\ resp[c].status = 200 /\ ~resp[c].hasResult)
            /\ (IsToolsCall(req[c]) /\ req[c].body.params.kind # "named") => resp[c].hasError
            /\ (IsToolsCall(req[c]) /\ req[c].body.params.kind = "named"
                    /\ req[c].body.params.name \notin tools) => resp[c].hasError
            /\ tool[c] = "threw" => resp[c].hasError
            /\ resp[c].payload = "error" => (resp[c].hasResult /\ ~resp[c].hasError)

\* C6 witness: the three error cases and a caught failure have all happened.
C6_Witness ==
    \E c, d \in Conns :
        /\ pc[c] = "done" /\ IsToolsCall(req[c]) /\ resp[c].hasError
        /\ req[c].body.params.kind = "named"
        /\ \/ req[c].body.params.name = "noSuchTool"
           \/ tool[c] = "threw"
        /\ pc[d] = "done" /\ IsToolsCall(req[d])
        /\ \/ req[d].body.params.kind = "noname" /\ resp[d].hasError
           \/ resp[d].payload = "error"

\* C7 (SpecHttp): a tools/call whose arguments omit a property listed in the
\* tool's inputSchema.required is answered with an error and its handler
\* performs no host action.
C7_RequiredValidated ==
    \A c \in Conns :
        (/\ pc[c] = "done" /\ IsToolsCall(req[c]) /\ req[c].body.params.kind = "named"
         /\ req[c].body.params.name \in tools
         /\ Supplied(req[c].body.params.name, req[c].body.params.arguments)
                # Required(req[c].body.params.name))
            => /\ resp[c].hasError \/ resp[c].payload = "error"
               /\ opened[c] = 0

\* C8 (SpecStart): when the first start sequence succeeds, server.start is
\* executed exactly once whatever start() calls follow, and every call
\* returns { success: true, port: 8765 }.
C8_StartOnce ==
    firstOutcome = "ok" =>
        /\ startAttempts = 1
        /\ \A c \in CallIds :
              calls[c].pc # "idle" => calls[c].result = [success |-> TRUE, port |-> 8765]

\* C8 witness: after a successful first start, one call returned, a second
\* was made after a reload, and a third while the second had not returned.
C8_Witness ==
    /\ firstOutcome = "ok" /\ loads > 1
    /\ \E c, d, e \in CallIds :
          /\ calls[c].pc = "returned" /\ calls[d].pc = "awaiting" /\ calls[e].pc = "awaiting"
          /\ c # d /\ d # e /\ c # e

C10_SavedOnSuccess ==
    (filterOp.tool \in {"createFilter", "updateFilter", "deleteFilter", "reorderFilters"}
        /\ filterOp.result = "success")
        => saved = filters

\* C10 witness: a deleteFilter succeeded on a list that keeps a filter and
\* was saved.
C10_Witness ==
    /\ filterOp = [tool |-> "deleteFilter", result |-> "success"]
    /\ Len(filters) > 0
    /\ saved = filters


\* Where a path leads once symbolic links are resolved.
RealPath(p) == IF p = "/home/u/link" THEN "/home/u/.ssh/id_rsa" ELSE p

\* A path in a sensitive location: under /etc/, /root/, /proc/, /sys/ or
\* /dev/, or holding .ssh/, .gnupg/ or .aws/, after resolving links.
SensitivePath(p) == RealPath(p) \in {"/etc/passwd", "/home/u/.ssh/id_rsa"}

\* C11 (SpecAttach): no compose window opened by sendMail, replyToMessage or
\* forwardMessage carries a file whose path, after resolving symbolic links,
\* lies in a sensitive location.
C11_SensitiveNeverAttached ==
    compose.window =>
        \A i \in 1..Len(compose.files) : ~SensitivePath(compose.files[i])

C13_CatalogMatchesDispatch ==
    /\ Cardinality(tools) = 20
    /\ \A c \in Conns :
          /\ (pc[c] = "done" /\ req[c].method = "POST" /\ req[c].body.kind = "object"
                  /\ req[c].body.method = "tools/list")
                => (resp[c].hasResult /\ resp[c].payload = "tools")
          /\ (pc[c] \in {"awaiting", "done"} /\ IsToolsCall(req[c])
                  /\ req[c].body.params.kind = "named")
                => (tool[c] = "unknown" <=> req[c].body.params.name \notin tools)

\* C13 witness: after a call of an unlisted name was answered 'Unknown
\* tool' and a listed tool ran, tools/list returned the catalog.
C13_Witness ==
    \E c, d \in Conns :
        /\ pc[c] = "done" /\ IsToolsCall(req[c]) /\ tool[c] = "unknown"
        /\ req[c].body.params.name = "noSuchTool"
        /\ pc[d] = "done" /\ req[d].method = "POST" /\ req[d].body.kind = "object"
        /\ req[d].body.method = "tools/list" /\ resp[d].payload = "tools"


\* The ids of the messages in a set of folders of the small store.
IdsIn(F) == UNION {{SmallMessages(f)[i].id : i \in 1..Len(SmallMessages(f))} : f \in F}

\* The ids a call returned.
ResultIds == {search.results[i].id : i \in 1..Len(search.results)}

\* The messages that do not belong to the broken item: to the other
\* accounts, to the other folders (the folders outside the subtree of a
\* folder that cannot list its subfolders), or the other messages.
SparedIds ==
    CASE fault.kind = "account"    -> IdsIn({"inbox2", "trash2"})
      [] fault.kind = "database"   -> IdsIn(SearchFolders \ {fault.name})
      [] fault.kind = "subfolders" ->
            IdsIn(SearchFolders \ ({fault.name} \cup {Children(fault.name)[i] :
                                                     i \in 1..Len(Children(fault.name))}))
      [] fault.kind = "message"    -> IdsIn(SearchFolders) \ {fault.id}
      [] OTHER                     -> IdsIn(SearchFolders)

\* A call that asks for every message of every account.
AsksForAll ==
    /\ search.args.folderPath = "undefined"
    /\ \/ search.tool = "searchMessages" /\ search.args.query = ""
             /\ search.args.startDate = NoDate /\ search.args.endDate = NoDate
       \/ search.tool = "getRecentMessages" /\ search.args.daysBack = 100
             /\ ~search.args.unreadOnly

\* C14 (SpecSearch): when access to one account, folder or message throws
\* while searchMessages or getRecentMessages walks the store, the call still
\* succeeds and returns what every other item contributes.
C14_SkipAndContinue ==
    AsksForAll => (search.outcome = "ok" /\ SparedIds \subseteq ResultIds)

\* What the claim takes maxResults to mean, in halves.
ClaimedLimitHalves(m) ==
    IF m.kind = "infinity" THEN 2 * 200
    ELSE IF m.kind # "number" \/ m.halves <= 0 THEN 2 * 50
    ELSE IF m.halves > 2 * 200 THEN 2 * 200
    ELSE m.halves

C17_SortedByDate ==
    search.outcome = "ok" =>
        \A i \in 1..(Len(search.results) - 1) :
            IF search.tool = "searchMessages" /\ search.args.sortOrder = "asc"
                THEN search.results[i].date <= search.results[i + 1].date
                ELSE search.results[i].date >= search.results[i + 1].date

\* C17 witness: a search with an unknown sortOrder returned messages of
\* several folders, the newest first and the oldest last.
C17_Witness ==
    /\ search.tool = "searchMessages" /\ search.outcome = "ok"
    /\ search.args.sortOrder = "ASC"
    /\ Len(search.results) > 3
    /\ search.results[1].date > search.results[Len(search.results)].date
    /\ search.results[1].folder # search.results[Len(search.results)].folder

\* C18 (SpecSearch): searchMessages returns no message dated before
\* startDate, none dated after endDate (after the end of its day when
\* endDate is a date without time), and, when nothing else narrows the
\* search, every message of the store inside the range.
C18_OnlyInRange ==
    (search.tool = "searchMessages" /\ search.outcome = "ok") =>
        LET b == search.args.startDate
            e == search.args.endDate
            InRange(date) ==
                /\ b.kind \in {"date", "timeT", "spaced"} => date >= b.tick
                /\ e.kind = "date" => date <= e.tick + TicksPerDay
                /\ e.kind \in {"timeT", "spaced"} => date <= e.tick
        IN  /\ \A i \in 1..Len(search.results) : InRange(search.results[i].date)
            /\ (fault = NoFault /\ search.args.folderPath = "undefined"
                    /\ search.args.query = "")
                  => \A f \in SearchFolders : \A i \in 1..Len(SmallMessages(f)) :
                        InRange(SmallMessages(f)[i].date)
                            => SmallMessages(f)[i].id \in ResultIds

\* The folders carrying the Inbox flag.
IsInbox(f) == f \in {"inbox1", "inbox2"}

\* C19 (SpecSearch): getRecentMessages without folderPath returns messages
\* of folders carrying the Inbox flag only.
C19_OnlyInboxes ==
    (search.tool = "getRecentMessages" /\ search.outcome = "ok"
            /\ search.args.folderPath = "undefined")
        => \A i \in 1..Len(search.results) : IsInbox(search.results[i].folder)


EventNoEnd == eventOp.endDate.kind \in {"undefined", "empty"}
EventAllDay == eventOp.allDay = "true"

\* C20 (SpecEvent): every dialog createEvent opens has its end strictly
\* after its start; without an endDate the end is the start plus one hour
\* (timed) or the day after the start day (all-day); an all-day endDate on
\* the start day gives the day after; an endDate that is not after the
\* start (timed) or lies on a day before the start day (all-day) gives an
\* error and no dialog.
C20_EndAfterStart ==
    /\ eventOp.opened => eventOp.dialog.end > eventOp.dialog.start
    /\ (eventOp.opened /\ EventNoEnd /\ ~EventAllDay)
        => /\ eventOp.dialog.start = eventOp.startDate.t
           /\ eventOp.dialog.end = eventOp.startDate.t + HourMs
    /\ (eventOp.opened /\ EventNoEnd /\ EventAllDay)
        => /\ eventOp.dialog.start = DayStart(eventOp.startDate.t)
           /\ eventOp.dialog.end = DayStart(eventOp.startDate.t) + DayMs
    /\ (/\ eventOp.opened /\ EventAllDay /\ eventOp.endDate.kind = "date"
        /\ DayStart(eventOp.endDate.t) = DayStart(eventOp.startDate.t))
        => eventOp.dialog.end = DayStart(eventOp.startDate.t) + DayMs
    /\ (/\ eventOp.result # "none"
        /\ eventOp.startDate.kind = "date" /\ eventOp.endDate.kind = "date"
        /\ IF EventAllDay
           THEN DayStart(eventOp.endDate.t) < DayStart(eventOp.startDate.t)
           ELSE eventOp.endDate.t <= eventOp.startDate.t)
        => eventOp.result = "error" /\ ~eventOp.opened

\* C20 witness: an all-day dialog was opened for an endDate later on the
\* start day, with the end moved to the next day.
C20_Witness ==
    /\ eventOp.opened /\ EventAllDay /\ eventOp.endDate.kind = "date"
    /\ eventOp.endDate.t > eventOp.startDate.t
    /\ DayStart(eventOp.endDate.t) = DayStart(eventOp.startDate.t)
    /\ eventOp.dialog.end = eventOp.dialog.start + DayMs


\* The list without the filter at index i (counted from 0).
Without(list, i) ==
    [j \in 1..(Len(list) - 1) |-> IF j <= i THEN list[j] ELSE list[j + 1]]

\* C21 (SpecList): createFilter puts the new filter at insertAtIndex,
\* clamped to the filter count, or at the end when insertAtIndex is omitted
\* or negative; the returned index is the position of the new filter in the
\* list, the list is one longer, and the other filters keep their order.
C21_InsertedAtIndex ==
    (filterOp = [tool |-> "createFilter", result |-> "success"] /\ filterCall.accountId # "none")
        => LET n == Len(filterCall.before)
               want == IF filterCall.a # Undefined /\ filterCall.a >= 0
                       THEN (IF filterCall.a < n THEN filterCall.a ELSE n)
                       ELSE n
           IN  /\ filterCall.index = want
               /\ Len(filters) = n + 1
               /\ filters[want + 1].name = filterCall.name
               /\ Without(filters, want) = filterCall.before

\* C21 witness: a filter was created in the middle of a list of two.
C21_Witness ==
    /\ filterOp = [tool |-> "createFilter", result |-> "success"]
    /\ Len(filterCall.before) = 2 /\ filterCall.a = 1 /\ filterCall.index = 1
    /\ filters[2].name = "A"

\* C22 (SpecList): reorderFilters with both indexes within the list moves
\* one filter: the filter that was at fromIndex is at toIndex, the list has
\* the same length and the same filters, the other filters keep their
\* order, and fromIndex = toIndex leaves the list as it was.
C22_MovedToIndex ==
    (/\ filterOp.tool = "reorderFilters" /\ filterCall.accountId = "account1"
     /\ filterCall.a \in 0..(Len(filterCall.before) - 1)
     /\ filterCall.b \in 0..(Len(filterCall.before) - 1))
        => /\ Len(filters) = Len(filterCall.before)
           /\ filters[filterCall.b + 1] = filterCall.before[filterCall.a + 1]
           /\ Without(filters, filterCall.b) = Without(filterCall.before, filterCall.a)
           /\ filterCall.a = filterCall.b => filters = filterCall.before

\* C22 witness: the first of three filters was moved to the end.
C22_Witness ==
    /\ filterOp = [tool |-> "reorderFilters", result |-> "success"]
    /\ Len(filterCall.before) = 3 /\ filterCall.a = 0 /\ filterCall.b = 2
    /\ filters = <<filterCall.before[2], filterCall.before[3], filterCall.before[1]>>

\* C26 (SpecEdit): when updateFilter returns an error, the account's filter
\* list is as before the call, in memory and on disk.
C26_ErrorLeavesListUnchanged ==
    (filterOp = [tool |-> "updateFilter", result |-> "error"] /\ filterCall.accountId # "none")
        => /\ filters = filterCall.before
           /\ saved = filterCall.disk


\* C25 (SpecUpdate): when updateMessage returns an error, the read state,
\* the flagged state and the folder of the message are as before the call.
C25_ErrorLeavesMessageUnchanged ==
    updateOp.result = "error" => ~updateOp.changed


\* C23 (SpecStart): after a start() attempt that failed the cached start
\* promise is cleared, so that the next start() call runs the start
\* sequence again: the global never holds the promise of a failed attempt
\* once the call that made it has gone on.
C23_FailureClearsPromise ==
    startPromise.set => startPromise.value.success


\* C24 (SpecHttp): on every path through the request handler res.finish()
\* is called exactly once: never twice, and once the handler's code for a
\* request has come to its end, by a return or by an exception, not zero
\* times.
C24_FinishExactlyOnce ==
    \A c \in Conns :
        /\ nFinish[c] <= 1
        /\ pc[c] \in {"done", "thrown"} => nFinish[c] = 1

=============================================================================
